---- MODULE Spec2Model ----
(***************************************************************************)
(* Model of the dwv voxel-buffer image (src/src/image/image.js) and of its *)
(* traversal iterators (src/src/image/iterator.js).                        *)
(*                                                                         *)
(* Two specifications share the variables:                                 *)
(*   SpecIter  one iterator, created by one of the five primitives or by   *)
(*             the slice-iterator planner, pulled with next();             *)
(*   Spec      an Image (and its clone) under its mutating operations.     *)
(***************************************************************************)
EXTENDS Integers, Sequences, FiniteSets, TLC

VARIABLES
  it,         \* the iterator closure: its captured parameters and cursor
  plan,       \* how the iterator was created (the call and its arguments)
  accessLog,  \* every offset handed to dataAccessor, in call order
  lastResult, \* what the last next() returned: done / threw
  pulls,      \* number of next() calls made so far
  dones,      \* number of next() calls that returned done
  images,     \* the Image objects: 1 is the image, 2 its clone once made
  heapGeom,   \* the Geometry objects the images refer to
  heapUids,   \* the imageUids arrays the images refer to
  heapMeta,   \* the meta objects the images refer to
  call,       \* the last operation called, its arguments and its outcome
  supplied    \* per image: the slice image that supplied each slice origin

iterVars == <<it, plan, accessLog, lastResult, pulls, dones>>
imageVars == <<images, heapGeom, heapUids, heapMeta, call, supplied>>
vars == <<it, plan, accessLog, lastResult, pulls, dones,
          images, heapGeom, heapUids, heapMeta, call, supplied>>

(***************************************************************************)
(* Bounds of the iterator model.                                           *)
(***************************************************************************)
MaxDim == 3
MaxStart == 1
MaxEnd == 4
MaxIncrement == 2
MaxCount == 2
MaxPulls == 12
MaxRows == 3

(***************************************************************************)
(* Bounds of the image model.                                              *)
(***************************************************************************)
MaxPos == 3
MaxFiles == 3
MaxFrames == 2
MaxFill == 2
MaxMetaObjects == 2
MaxUids == 4
MaxSample == 9

Min(a, b) == IF a < b THEN a ELSE b
Max(a, b) == IF a > b THEN a ELSE b

SeqToSet(s) == {s[i] : i \in 1..Len(s)}

(***************************************************************************)
(* Iterator closures.  One record shape for the five primitives; a field a *)
(* primitive does not capture keeps the value it has here.                 *)
(***************************************************************************)
NoIterator ==
  [kind |-> "none", start |-> 0, end |-> 0, increment |-> 0,
   countMax |-> 0, finalCountIncrement |-> 0, reverse1 |-> FALSE,
   regionSize |-> 0, regionOffset |-> 0, regions |-> <<>>,
   nextIndex |-> 0, nextIndex1 |-> 0, nextIndex2 |-> 0,
   count |-> 0, regionElementCount |-> 0, regionCount |-> 0]

\* what next() hands back: the closure after the call, the offsets it read
\* through dataAccessor, and whether it returned done or threw
Pulled(newIt, offsets, isDone, didThrow) ==
  [it |-> newIt, accessed |-> offsets, done |-> isDone, threw |-> didThrow]

\* a simpleRange whose cursor starts at offset 0 instead of start
simpleRangeFromZero(start, end, increment) ==
  [NoIterator EXCEPT !.kind = "simpleRange", !.start = start, !.end = end,
                     !.increment = increment, !.nextIndex = 0]

\* dwv.image.simpleRange: the closure as created
simpleRange(start, end, increment) ==
  [NoIterator EXCEPT !.kind = "simpleRange", !.start = start, !.end = end,
                     !.increment = increment, !.nextIndex = start]

\* dwv.image.simpleRange next() that rewinds once it has reported done
simpleRangeNextRestart(i) ==
  IF i.nextIndex < i.end
  THEN Pulled([i EXCEPT !.nextIndex = i.nextIndex + i.increment],
              <<i.nextIndex>>, FALSE, FALSE)
  ELSE Pulled([i EXCEPT !.nextIndex = i.start], <<>>, TRUE, FALSE)

\* dwv.image.simpleRange: next()
simpleRangeNext(i) ==
  IF i.nextIndex < i.end
  THEN Pulled([i EXCEPT !.nextIndex = i.nextIndex + i.increment],
              <<i.nextIndex>>, FALSE, FALSE)
  ELSE Pulled(i, <<>>, TRUE, FALSE)

\* dwv.image.range: the closure as created (first index and increments
\* adapted to the reverse flags)
range(start, end, increment, countMax, countIncrement, reverse1, reverse2) ==
  LET nextIndex0 ==
        IF reverse1
        THEN (IF reverse2 THEN end - (countMax - 1) * increment ELSE end)
        ELSE (IF reverse2 THEN start + (countMax - 1) * increment ELSE start)
      countIncrement1 == IF reverse1 THEN -countIncrement ELSE countIncrement
      increment1 ==
        IF reverse1
        THEN (IF reverse2 THEN increment ELSE -increment)
        ELSE (IF reverse2 THEN -increment ELSE increment)
  IN [NoIterator EXCEPT !.kind = "range", !.start = start, !.end = end,
                        !.increment = increment1, !.countMax = countMax,
                        !.finalCountIncrement =
                           countIncrement1 - countMax * increment1,
                        !.reverse1 = reverse1, !.nextIndex = nextIndex0]

\* dwv.image.range: testIndex
testIndex(i, index) ==
  IF i.reverse1 THEN index >= i.start ELSE index <= i.end

\* dwv.image.range: next()
rangeNext(i) ==
  IF testIndex(i, i.nextIndex)
  THEN LET stepped == i.nextIndex + i.increment
           counted == i.count + 1
       IN Pulled(
            IF counted = i.countMax
            THEN [i EXCEPT !.count = 0,
                           !.nextIndex = stepped + i.finalCountIncrement]
            ELSE [i EXCEPT !.count = counted, !.nextIndex = stepped],
            <<i.nextIndex>>, FALSE, FALSE)
  ELSE Pulled(i, <<>>, TRUE, FALSE)

\* dwv.image.rangeRegion: the closure as created
rangeRegion(start, end, increment, regionSize, regionOffset) ==
  [NoIterator EXCEPT !.kind = "rangeRegion", !.start = start, !.end = end,
                     !.increment = increment, !.regionSize = regionSize,
                     !.regionOffset = regionOffset, !.nextIndex = start]

\* rangeRegion.next() that never restarts the count of a region
rangeRegionNextKeepsCount(i) ==
  IF i.nextIndex < i.end
  THEN LET counted == i.regionElementCount + 1
           stepped == i.nextIndex + i.increment
       IN Pulled(
            IF counted = i.regionSize
            THEN [i EXCEPT !.regionElementCount = counted,
                           !.nextIndex = stepped + i.regionOffset]
            ELSE [i EXCEPT !.regionElementCount = counted,
                           !.nextIndex = stepped],
            <<i.nextIndex>>, FALSE, FALSE)
  ELSE Pulled(i, <<>>, TRUE, FALSE)

\* dwv.image.rangeRegion: next()
rangeRegionNext(i) ==
  IF i.nextIndex < i.end
  THEN LET counted == i.regionElementCount + 1
           stepped == i.nextIndex + i.increment
       IN Pulled(
            IF counted = i.regionSize
            THEN [i EXCEPT !.regionElementCount = 0,
                           !.nextIndex = stepped + i.regionOffset]
            ELSE [i EXCEPT !.regionElementCount = counted,
                           !.nextIndex = stepped],
            <<i.nextIndex>>, FALSE, FALSE)
  ELSE Pulled(i, <<>>, TRUE, FALSE)

\* dwv.image.rangeRegions: the closure as created; regions[k] is the
\* triple <<off0, size, off1>>
rangeRegions(start, end, increment, regions) ==
  [NoIterator EXCEPT !.kind = "rangeRegions", !.start = start, !.end = end,
                     !.increment = increment, !.regions = regions,
                     !.nextIndex = start]

\* dwv.image.rangeRegions: next().  regions[regionCount] is undefined once
\* regionCount has passed the last region: reading its [1] throws a
\* TypeError after the accessor was called and the cursor was advanced.
rangeRegionsNext(i) ==
  IF i.nextIndex < i.end
  THEN LET counted == i.regionElementCount + 1
           stepped == i.nextIndex + i.increment
           cur == i.regionCount + 1
       IN IF cur > Len(i.regions)
          THEN Pulled([i EXCEPT !.regionElementCount = counted,
                                !.nextIndex = stepped],
                      <<i.nextIndex>>, FALSE, TRUE)
          ELSE IF counted = i.regions[cur][2]
          THEN Pulled(
                 [i EXCEPT !.regionElementCount = 0,
                           !.regionCount = i.regionCount + 1,
                           !.nextIndex =
                              stepped + i.regions[cur][3] +
                              (IF cur + 1 <= Len(i.regions)
                               THEN i.regions[cur + 1][1] ELSE 0)],
                 <<i.nextIndex>>, FALSE, FALSE)
          ELSE Pulled([i EXCEPT !.regionElementCount = counted,
                                !.nextIndex = stepped],
                      <<i.nextIndex>>, FALSE, FALSE)
  ELSE Pulled(i, <<>>, TRUE, FALSE)

\* a range3d that steps by `increment` in interleaved mode too
range3dKeepsIncrement(start, end, increment, isPlanar) ==
  LET componentIncrement == IF isPlanar THEN (end - start) \div 3 ELSE 1
  IN [NoIterator EXCEPT !.kind = "range3d", !.start = start, !.end = end,
                        !.increment = increment, !.nextIndex = start,
                        !.nextIndex1 = start + componentIncrement,
                        !.nextIndex2 = start + 2 * componentIncrement]

\* dwv.image.range3d: the closure as created.  (end - start) / 3 is a
\* JavaScript division: the callers modelled here pass a multiple of 3.
range3d(start, end, increment, isPlanar) ==
  LET componentIncrement == IF isPlanar THEN (end - start) \div 3 ELSE 1
      increment1 == IF isPlanar THEN increment ELSE increment * 3
  IN [NoIterator EXCEPT !.kind = "range3d", !.start = start, !.end = end,
                        !.increment = increment1, !.nextIndex = start,
                        !.nextIndex1 = start + componentIncrement,
                        !.nextIndex2 = start + 2 * componentIncrement]

\* dwv.image.range3d: next()
range3dNext(i) ==
  IF i.nextIndex < i.end
  THEN Pulled([i EXCEPT !.nextIndex = i.nextIndex + i.increment,
                        !.nextIndex1 = i.nextIndex1 + i.increment,
                        !.nextIndex2 = i.nextIndex2 + i.increment],
              <<i.nextIndex, i.nextIndex1, i.nextIndex2>>, FALSE, FALSE)
  ELSE Pulled(i, <<>>, TRUE, FALSE)

\* dwv.image.getIteratorValues(iterator) for a simpleRange: the offsets the
\* accessor is called with until next() reports done
RECURSIVE getIteratorValues(_)
getIteratorValues(i) ==
  LET ival == simpleRangeNext(i)
  IN IF ival.done THEN <<>> ELSE ival.accessed \o getIteratorValues(ival.it)

\* dwv.image.getIteratorValues(iterator) for a range3d: the offsets the
\* accessor is called with, triple after triple, until next() reports done
RECURSIVE getIteratorValues3d(_)
getIteratorValues3d(i) ==
  LET ival == range3dNext(i)
  IN IF ival.done THEN <<>> ELSE ival.accessed \o getIteratorValues3d(ival.it)

(***************************************************************************)
(* The geometry's Size (dwv.image.Size, a collaborator that is not part of *)
(* the two source files): a tuple of per-dimension sizes, dimension d of   *)
(* the source being element d + 1 here.                                    *)
(***************************************************************************)
RECURSIVE Product(_, _, _)
\* product of sz[from] .. sz[to]
Product(sz, from, to) ==
  IF from > to THEN 1 ELSE sz[from] * Product(sz, from + 1, to)

\* size.get(d)
SizeGet(sz, d) == sz[d + 1]

\* size.getDimSize(dimension, start): product of the sizes of the
\* dimensions start .. dimension - 1
getDimSize(sz, dimension, start) == Product(sz, start + 1, dimension)

\* size.getTotalSize(start): product of the sizes of the dimensions >= start
getTotalSize(sz, start) == Product(sz, start + 1, Len(sz))

RECURSIVE OffsetSum(_, _, _, _)
OffsetSum(sz, index, start, d) ==
  IF d >= Len(sz) THEN 0
  ELSE index[d + 1] * getDimSize(sz, d, start) +
       OffsetSum(sz, index, start, d + 1)

\* size.indexToOffset(index, start): no bounds check
indexToOffset(sz, index, start) == OffsetSum(sz, index, start, start)

\* size.offsetToIndex(offset)
offsetToIndex(sz, offset) ==
  [d \in 1..Len(sz) |->
     IF d = Len(sz)
     THEN offset \div getDimSize(sz, d - 1, 0)
     ELSE (offset % getDimSize(sz, d, 0)) \div getDimSize(sz, d - 1, 0)]

(***************************************************************************)
(* The slice-iterator planner.  A view orientation is modelled by the two  *)
(* values the planner reads from it, <<getColAbsMax(0).index,              *)
(* getColAbsMax(2).index>>; <<>> is "no orientation supplied".             *)
(***************************************************************************)
NoOrientation == <<>>

Orientations ==
  {<<a, b>> : a \in 0..2, b \in 0..2} \ {<<a, a>> : a \in 0..2}

\* the plane a view shows: the two storage axes other than the through-plane
\* axis; number of samples of that plane
PlaneSampleCount(sz, dirMax2Index) ==
  CASE dirMax2Index = 2 -> sz[1] * sz[2]
    [] dirMax2Index = 0 -> sz[2] * sz[3]
    [] dirMax2Index = 1 -> sz[1] * sz[3]

\* dwv.image.getSliceIterator, for a 1 or 3 component image
getSliceIterator(sz, numberOfComponents, planarConfiguration, position, viewOrientation) ==
  LET dirMax2Index ==
        IF viewOrientation # NoOrientation THEN viewOrientation[2] ELSE 2
      posStart == [d \in 1..Len(position) |->
                     IF d - 1 = dirMax2Index THEN position[d] ELSE 0]
      start == indexToOffset(sz, posStart, 0)
      ncols == SizeGet(sz, 0)
      nrows == SizeGet(sz, 1)
      nslices == SizeGet(sz, 2)
      sliceSize == getDimSize(sz, 2, 0)
  IN IF numberOfComponents = 1
     THEN IF viewOrientation # NoOrientation
          THEN LET dirMax0 == viewOrientation[1]
                   dirMax2 == viewOrientation[2]
               IN CASE dirMax2 = 2 ->
                         LET end == start + sliceSize - 1
                         IN IF dirMax0 = 0
                            THEN range(start, end, 1, ncols, ncols,
                                       FALSE, FALSE)
                            ELSE range(start, end, ncols, nrows, 1,
                                       TRUE, FALSE)
                    [] dirMax2 = 0 ->
                         LET end == start + (nslices - 1) * sliceSize +
                                    ncols * (nrows - 1)
                         IN IF dirMax0 = 1
                            THEN range(start, end, ncols, nrows, sliceSize,
                                       TRUE, TRUE)
                            ELSE range(start, end, sliceSize, nslices, ncols,
                                       FALSE, TRUE)
                    [] dirMax2 = 1 ->
                         LET end == start + (nslices - 1) * sliceSize +
                                    ncols - 1
                         IN IF dirMax0 = 0
                            THEN range(start, end, 1, ncols, sliceSize,
                                       TRUE, TRUE)
                            ELSE range(start, end, sliceSize, nslices, 1,
                                       FALSE, TRUE)
          ELSE simpleRange(start, start + sliceSize, 1)
     ELSE range3d(start * 3, start * 3 + sliceSize * 3, 1,
                  planarConfiguration = 1)

\* position.getWithNew2D(x, y): the index with its first two values replaced
getWithNew2D(position, x, y) == [position EXCEPT ![1] = x, ![2] = y]

\* getRegionSliceIterator with the end offset taken at row max.getY()
\* instead of max.getY() - 1
getRegionSliceIteratorKeepsExtraY(sz, numberOfComponents, position, min, max) ==
  IF numberOfComponents # 1 THEN NoIterator
  ELSE
  LET min1 == IF min = <<>> THEN <<0, 0>> ELSE min[1]
      max1 == IF max = <<>>
              THEN <<SizeGet(sz, 0) - 1, SizeGet(sz, 1)>> ELSE max[1]
      startOffset ==
        indexToOffset(sz, getWithNew2D(position, min1[1], min1[2]), 0)
      endOffset ==
        indexToOffset(sz, getWithNew2D(position, max1[1], max1[2]), 0)
      rangeNumberOfColumns ==
        IF max1[1] - min1[1] > 1 THEN max1[1] - min1[1] ELSE 1
      rowIncrement == SizeGet(sz, 0) - rangeNumberOfColumns
  IN rangeRegion(startOffset, endOffset + 1, 1, rangeNumberOfColumns,
                 rowIncrement)

\* dwv.image.getRegionSliceIterator; min and max are <<>> when omitted and
\* <<point>> when given, a point being <<x, y>>.  NoIterator stands for the
\* call that throws on the number of components.
getRegionSliceIterator(sz, numberOfComponents, position, min, max) ==
  IF numberOfComponents # 1 THEN NoIterator
  ELSE
  LET min1 == IF min = <<>> THEN <<0, 0>> ELSE min[1]
      max1 == IF max = <<>>
              THEN <<SizeGet(sz, 0) - 1, SizeGet(sz, 1)>> ELSE max[1]
      startOffset ==
        indexToOffset(sz, getWithNew2D(position, min1[1], min1[2]), 0)
      endOffset ==
        indexToOffset(sz, getWithNew2D(position, max1[1], max1[2] - 1), 0)
      rangeNumberOfColumns ==
        IF max1[1] - min1[1] > 1 THEN max1[1] - min1[1] ELSE 1
      rowIncrement == SizeGet(sz, 0) - rangeNumberOfColumns
  IN rangeRegion(startOffset, endOffset + 1, 1, rangeNumberOfColumns,
                 rowIncrement)

\* getVariableRegionSliceIterator: the regions of non-zero width, in list
\* order
nonZeroWidth(regions) ==
  SelectSeq(regions, LAMBDA region : region[2][1] - region[1][1] # 0)

\* dwv.image.getVariableRegionSliceIterator; a region is
\* <<<<x0, y0>>, <<x1, y1>>>>.  NoIterator stands for the call that throws
\* on the number of components and for the one that returns undefined
\* because no region has a width.
getVariableRegionSliceIterator(sz, numberOfComponents, position, regions) ==
  IF numberOfComponents # 1 THEN NoIterator
  ELSE
  LET kept == nonZeroWidth(regions)
      offsetRegions ==
        [k \in 1..Len(kept) |->
           <<kept[k][1][1], kept[k][2][1] - kept[k][1][1],
             SizeGet(sz, 0) - kept[k][2][1]>>]
  IN IF Len(kept) = 0 THEN NoIterator
     ELSE LET min == kept[1][1]
              max == kept[Len(kept)][2]
              startOffset ==
                indexToOffset(sz, getWithNew2D(position, min[1], min[2]), 0)
              endOffset ==
                indexToOffset(sz, getWithNew2D(position, max[1], max[2]), 0)
          IN rangeRegions(startOffset, endOffset + 1, 1, offsetRegions)

(***************************************************************************)
(* Values shared by the image model.  null / undefined is the empty tuple, *)
(* a defined value v is <<v>>.                                             *)
(***************************************************************************)
NULL == <<>>
Some(v) == <<v>>

\* Array.prototype.splice(pos, 0, x): pos past the end inserts at the end
Splice(s, pos, x) ==
  LET p == Min(pos, Len(s))
  IN SubSeq(s, 1, p) \o <<x>> \o SubSeq(s, p + 1, Len(s))

\* a typed array as allocated: `size` zeros
Zeros(size) == [k \in 1..size |-> 0]

\* TypedArray.prototype.subarray(start, end): bounds clamped to the array
Subarray(buf, start, end) ==
  SubSeq(buf, Min(start, Len(buf)) + 1, Min(end, Len(buf)))

\* TypedArray.prototype.set(src, offset) throws a RangeError, writing
\* nothing, when src does not fit
SetOverflows(buf, src, offset) == Len(src) + offset > Len(buf)

\* TypedArray.prototype.set(src, offset) when it fits (src is copied first,
\* so an overlapping source is moved correctly)
SetAt(buf, src, offset) ==
  [k \in 1..Len(buf) |->
     IF k > offset /\ k <= offset + Len(src) THEN src[k - offset] ELSE buf[k]]

(***************************************************************************)
(* RescaleSlopeAndIntercept (dwv.image.RescaleSlopeAndIntercept, not part  *)
(* of the two source files): an immutable pair with apply, equals, isID.   *)
(***************************************************************************)
RSI(slope, intercept) == [slope |-> slope, intercept |-> intercept]
RsiApply(r, v) == v * r.slope + r.intercept
RsiEquals(a, b) == a.slope = b.slope /\ a.intercept = b.intercept
RsiIsID(r) == r.slope = 1 /\ r.intercept = 0

(***************************************************************************)
(* Geometry (dwv.image.Geometry, not part of the two source files): the    *)
(* size, the slice origins in geometric order (a position along the slice  *)
(* normal) and the orientation (an opaque value compared with equals).     *)
(***************************************************************************)
Geometry(sz, origins, orientation) ==
  [size |-> sz, origins |-> origins, orientation |-> orientation]

\* geometry.getSliceIndex(point): the index the slice at `point` takes among
\* the origins
getSliceIndex(g, point) ==
  Cardinality({k \in 1..Len(g.origins) : g.origins[k] < point})

\* geometry.appendOrigin(origin, index): one more slice
appendOrigin(g, origin, index) ==
  [g EXCEPT !.origins = Splice(g.origins, index, origin),
            !.size = [g.size EXCEPT ![3] = g.size[3] + 1]]

\* geometry.appendFrame(): one more frame
geometryAppendFrame(g) ==
  [g EXCEPT !.size = IF Len(g.size) = 4
                     THEN [g.size EXCEPT ![4] = g.size[4] + 1]
                     ELSE Append(g.size, 2)]

(***************************************************************************)
(* The Image.  Its geometry, imageUids and meta are references (indices    *)
(* into heapGeom, heapUids, heapMeta): the constructor keeps the objects   *)
(* it is handed.  A world is the four variables together.                  *)
(***************************************************************************)
World(imgs, geoms, uids, metas) ==
  [images |-> imgs, heapGeom |-> geoms, heapUids |-> uids, heapMeta |-> metas]

\* the outcome of a method: the world after it and whether it threw
Outcome(w, didThrow) == [w |-> w, threw |-> didThrow]

NoImage == [alive |-> FALSE]

\* new dwv.image.Image(geometry, buffer, imageUids)
NewImage(geoms, geometryRef, buffer, imageUidsRef) ==
  [alive |-> TRUE,
   geometry |-> geometryRef,
   imageUids |-> imageUidsRef,
   meta |-> 0,
   buffer |-> buffer,
   rsi |-> Some(RSI(1, 0)),
   rsis |-> NULL,
   isIdentityRSI |-> TRUE,
   isConstantRSI |-> TRUE,
   photometricInterpretation |-> "MONOCHROME2",
   planarConfiguration |-> 0,
   numberOfComponents |->
     Len(buffer) \div getTotalSize(geoms[geometryRef].size, 0),
   dataRange |-> NULL,
   rescaledDataRange |-> NULL,
   histogram |-> NULL,
   appendframeEvents |-> 0]

\* the objects an image refers to
GeometryOf(w, i) == w.heapGeom[w.images[i].geometry]
ImageUidsOf(w, i) == w.heapUids[w.images[i].imageUids]
\* meta = {} of the constructor is reference 0: the empty object
EmptyMeta == [numberOfFiles |-> NULL, windowPresets |-> NULL, Modality |-> NULL]
MetaOf(w, i) ==
  IF w.images[i].meta = 0 THEN EmptyMeta ELSE w.heapMeta[w.images[i].meta]

\* getSecondaryOffsetMax()
getSecondaryOffsetMax(w, i) == getTotalSize(GeometryOf(w, i).size, 2)

\* Image.getSecondaryOffset(index)
getSecondaryOffset(w, i, index) ==
  indexToOffset(GeometryOf(w, i).size, index, 2)

\* Image.getImageUid(index); index = NULL is "no index given"
getImageUid(w, i, index) ==
  LET uids == ImageUidsOf(w, i)
      at == IF index = NULL THEN 0 ELSE getSecondaryOffset(w, i, index[1])
  IN IF Len(uids) # 1 /\ index # NULL
     THEN (IF at + 1 <= Len(uids) THEN Some(uids[at + 1]) ELSE NULL)
     ELSE (IF Len(uids) >= 1 THEN Some(uids[1]) ELSE NULL)

\* `typeof index === 'undefined'` inside setRescaleSlopeAndIntercept: the
\* method's parameters are inRsi and offset, and no variable named index is
\* in its scope, so the test is true whatever offset is.
typeofIndexIsUndefined == TRUE

\* setRescaleSlopeAndIntercept without the update of the identity flag
setRescaleSlopeAndInterceptKeepsFlag(img, secondaryOffsetMax, inRsi, offset) ==
  LET at == IF offset = NULL THEN 0 ELSE offset[1]
  IN IF ~img.isConstantRSI
     THEN IF typeofIndexIsUndefined
          THEN [img |-> img, threw |-> TRUE]
          ELSE [img |-> [img EXCEPT
                           !.rsis = Some(Splice(img.rsis[1], at, Some(inRsi)))],
                threw |-> FALSE]
     ELSE IF ~RsiEquals(img.rsi[1], inRsi)
          THEN [img |-> [img EXCEPT !.rsi = Some(inRsi)], threw |-> FALSE]
          ELSE [img |-> img, threw |-> FALSE]

\* Image.setRescaleSlopeAndIntercept(inRsi, offset); offset = NULL is
\* "no offset given"
setRescaleSlopeAndIntercept(img, secondaryOffsetMax, inRsi, offset) ==
  LET flagged == [img EXCEPT !.isIdentityRSI =
                               img.isIdentityRSI /\ RsiIsID(inRsi)]
      at == IF offset = NULL THEN 0 ELSE offset[1]
  IN IF ~img.isConstantRSI
     THEN IF typeofIndexIsUndefined
          THEN [img |-> flagged, threw |-> TRUE]
          ELSE [img |-> [flagged EXCEPT
                           !.rsis = Some(Splice(img.rsis[1], at, Some(inRsi)))],
                threw |-> FALSE]
     ELSE IF ~RsiEquals(img.rsi[1], inRsi)
          THEN IF typeofIndexIsUndefined
               THEN [img |-> [flagged EXCEPT !.rsi = Some(inRsi)],
                     threw |-> FALSE]
               ELSE [img |-> [flagged EXCEPT
                                !.isConstantRSI = FALSE,
                                !.rsi = NULL,
                                !.rsis = Some(Splice(
                                   [k \in 1..secondaryOffsetMax |-> k - 1],
                                   at, Some(inRsi)))],
                     threw |-> FALSE]
          ELSE [img |-> flagged, threw |-> FALSE]

\* Image.getValueAtOffset(offset): NULL is the undefined a read past the
\* buffer gives
getValueAtOffset(img, offset) ==
  IF offset >= 0 /\ offset < Len(img.buffer)
  THEN Some(img.buffer[offset + 1]) ELSE NULL

\* Image.getRescaleSlopeAndIntercept(index); index = NULL is "no index
\* given".  NULL is returned where the source throws or finds no RSI.
getRescaleSlopeAndIntercept(img, sz, index) ==
  IF img.isConstantRSI THEN img.rsi
  ELSE IF index = NULL THEN NULL
  ELSE LET offset == indexToOffset(sz, index[1], 2)
       IN IF offset + 1 <= Len(img.rsis[1])
          THEN img.rsis[1][offset + 1] ELSE img.rsi

\* Image.prototype.getRescaledValueAtOffset(offset), for an offset inside
\* the buffer
getRescaledValueAtOffset(img, sz, offset) ==
  LET val == img.buffer[offset + 1]
  IN IF ~img.isIdentityRSI
     THEN IF img.isConstantRSI
          THEN RsiApply(getRescaleSlopeAndIntercept(img, sz, NULL)[1], val)
          ELSE RsiApply(getRescaleSlopeAndIntercept(
                          img, sz, Some(offsetToIndex(sz, offset)))[1], val)
     ELSE val

\* realloc(size): the new array replaces buffer before the old content is
\* copied in, and the copy throws when the old buffer is the longer one
realloc(img, size) ==
  IF SetOverflows(Zeros(size), img.buffer, 0)
  THEN [img |-> [img EXCEPT !.buffer = Zeros(size)], threw |-> TRUE]
  ELSE [img |-> [img EXCEPT !.buffer = SetAt(Zeros(size), img.buffer, 0)],
        threw |-> FALSE]

\* the world with image i replaced
WithImage(w, i, img) == [w EXCEPT !.images[i] = img]

\* the checks of appendSlice without the one of the photometric
\* interpretation
appendSliceRejectsGeometryAndMeta(img, g, meta, rhsOpt) ==
  \/ rhsOpt = NULL
  \/ LET rhs == rhsOpt[1]
     IN \/ SizeGet(rhs.size, 2) # 1
        \/ SizeGet(g.size, 0) # SizeGet(rhs.size, 0)
        \/ SizeGet(g.size, 1) # SizeGet(rhs.size, 1)
        \/ g.orientation # rhs.orientation
        \/ (meta.Modality # NULL /\ meta.Modality # rhs.meta.Modality)

\* Image.appendSlice, the checks of its input: TRUE when one of them throws
appendSliceRejects(img, g, meta, rhsOpt) ==
  \/ rhsOpt = NULL
  \/ LET rhs == rhsOpt[1]
     IN \/ SizeGet(rhs.size, 2) # 1
        \/ SizeGet(g.size, 0) # SizeGet(rhs.size, 0)
        \/ SizeGet(g.size, 1) # SizeGet(rhs.size, 1)
        \/ g.orientation # rhs.orientation
        \/ img.photometricInterpretation # rhs.photometricInterpretation
        \/ (meta.Modality # NULL /\ meta.Modality # rhs.meta.Modality)

\* a buffer that grows to the slices stored and the one coming in
fullBufferSizeOfStoredSlices(sz, sliceSize, numberOfFiles) ==
  sliceSize * (SizeGet(sz, 2) + 1)

\* Image.appendSlice: the size of the full buffer
fullBufferSize(sz, sliceSize, numberOfFiles) ==
  IF Len(sz) = 4
  THEN sliceSize * numberOfFiles * SizeGet(sz, 3)
  ELSE sliceSize * numberOfFiles

\* a move of the content that takes one slice only, whatever the number of
\* slices behind the new one
moveContentOneSlice(buffer, newSliceIndex, oldNumberOfSlices, sliceSize, primaryOffset) ==
  IF newSliceIndex < oldNumberOfSlices
  THEN LET moving == Subarray(buffer, primaryOffset, primaryOffset + sliceSize)
       IN IF SetOverflows(buffer, moving, primaryOffset + sliceSize)
          THEN [buffer |-> buffer, threw |-> TRUE]
          ELSE [buffer |-> SetAt(buffer, moving, primaryOffset + sliceSize),
                threw |-> FALSE]
  ELSE [buffer |-> buffer, threw |-> FALSE]

\* Image.appendSlice, first frame: move the content at and after the new
\* slice one slice further
moveContent(buffer, newSliceIndex, oldNumberOfSlices, sliceSize, primaryOffset) ==
  LET start == primaryOffset
      moving ==
        IF newSliceIndex = 0
        THEN Some(Subarray(buffer, start,
                           start + oldNumberOfSlices * sliceSize))
        ELSE IF newSliceIndex < oldNumberOfSlices
        THEN Some(Subarray(buffer, start,
                start + (oldNumberOfSlices - newSliceIndex) * sliceSize))
        ELSE NULL
  IN IF moving = NULL THEN [buffer |-> buffer, threw |-> FALSE]
     ELSE IF SetOverflows(buffer, moving[1], primaryOffset + sliceSize)
     THEN [buffer |-> buffer, threw |-> TRUE]
     ELSE [buffer |-> SetAt(buffer, moving[1], primaryOffset + sliceSize),
           threw |-> FALSE]

\* Image.appendSlice: one window preset of the image, updated with the
\* slice's preset of the same name
updateWindowPreset(windowPreset, rhsPreset, numberOfImages, secondaryOffset) ==
  LET differs == /\ windowPreset.perslice \in {NULL, Some(FALSE)}
                 /\ windowPreset.wl[1] # rhsPreset.wl[1]
      marked ==
        IF differs
        THEN [perslice |-> Some(TRUE),
              wl |-> windowPreset.wl \o
                     [k \in 1..Max(numberOfImages - 1, 0) |->
                        windowPreset.wl[1]]]
        ELSE windowPreset
  IN IF marked.perslice = Some(TRUE)
     THEN [marked EXCEPT
             !.wl = Splice(marked.wl, secondaryOffset, rhsPreset.wl[1])]
     ELSE marked

\* Image.appendSlice: update of meta.windowPresets (a map from preset name
\* to preset) with the slice's presets
updateWindowPresets(windowPresets, rhsPresets, numberOfImages, secondaryOffset) ==
  [pkey \in (DOMAIN windowPresets) \cup (DOMAIN rhsPresets) |->
     IF pkey \notin DOMAIN rhsPresets THEN windowPresets[pkey]
     ELSE IF pkey \in DOMAIN windowPresets
     THEN updateWindowPreset(windowPresets[pkey], rhsPresets[pkey],
                             numberOfImages, secondaryOffset)
     ELSE rhsPresets[pkey]]

\* the world with the meta object of image i replaced by `meta` (the
\* object is updated in place: every image that refers to it sees it)
WithMetaOf(w, i, meta) ==
  IF w.images[i].meta = 0 THEN w
  ELSE [w EXCEPT !.heapMeta[w.images[i].meta] = meta]

\* Image.appendSlice(rhs, timeId)
appendSlice(w, i, rhsOpt, timeId) ==
  LET img == w.images[i]
      g == GeometryOf(w, i)
      meta == MetaOf(w, i)
      size == g.size
      ncomp == img.numberOfComponents
  IN
  IF appendSliceRejects(img, g, meta, rhsOpt) THEN Outcome(w, TRUE)
  ELSE IF meta.numberOfFiles = NULL THEN Outcome(w, TRUE)
  ELSE
  LET rhs == rhsOpt[1]
      sliceSize == ncomp * getDimSize(size, 2, 0)
      full == fullBufferSize(size, sliceSize, meta.numberOfFiles[1])
      grown == IF Len(img.buffer) # full
               THEN realloc(img, full)
               ELSE [img |-> img, threw |-> FALSE]
  IN
  IF grown.threw THEN Outcome(WithImage(w, i, grown.img), TRUE)
  ELSE
  LET newSliceIndex == getSliceIndex(g, rhs.origin)
      index == [d \in 1..Len(size) |->
                  IF d = 3 THEN newSliceIndex
                  ELSE IF d = 4 THEN timeId ELSE 0]
      primaryOffset == indexToOffset(size, index, 0) * ncomp
      secondaryOffset == getSecondaryOffset(w, i, index) * ncomp
      oldNumberOfSlices == SizeGet(size, 2)
      moved == IF timeId = 0
               THEN moveContent(grown.img.buffer, newSliceIndex,
                                oldNumberOfSlices, sliceSize, primaryOffset)
               ELSE [buffer |-> grown.img.buffer, threw |-> FALSE]
  IN
  IF moved.threw THEN Outcome(WithImage(w, i, grown.img), TRUE)
  ELSE IF SetOverflows(moved.buffer, rhs.buffer, primaryOffset)
  THEN Outcome(WithImage(w, i, [grown.img EXCEPT !.buffer = moved.buffer]),
               TRUE)
  ELSE
  LET stored == [grown.img EXCEPT
                   !.buffer = SetAt(moved.buffer, rhs.buffer, primaryOffset)]
      w1 == WithImage(w, i, stored)
      w2 == IF timeId = 0
            THEN [w1 EXCEPT !.heapGeom[img.geometry] =
                              appendOrigin(g, rhs.origin, newSliceIndex)]
            ELSE w1
      rsiSet == setRescaleSlopeAndIntercept(
                  stored, getSecondaryOffsetMax(w2, i), rhs.rsi,
                  Some(secondaryOffset))
      w3 == WithImage(w2, i, rsiSet.img)
  IN
  IF rsiSet.threw THEN Outcome(w3, TRUE)
  ELSE
  LET numberOfImages == Len(ImageUidsOf(w3, i))
      w4 == [w3 EXCEPT !.heapUids[img.imageUids] =
                         Splice(ImageUidsOf(w3, i), secondaryOffset, rhs.uid)]
  IN
  IF meta.windowPresets = NULL THEN Outcome(w4, FALSE)
  ELSE IF rhs.meta.windowPresets = NULL THEN Outcome(w4, TRUE)
  ELSE Outcome(
         WithMetaOf(w4, i,
           [meta EXCEPT !.windowPresets =
              Some(updateWindowPresets(meta.windowPresets[1],
                                       rhs.meta.windowPresets[1],
                                       numberOfImages, secondaryOffset))]),
         FALSE)

\* Image.appendFrame(): the geometry gets one more frame and the
\* 'appendframe' event is fired
appendFrame(w, i) ==
  LET img == w.images[i]
  IN [w EXCEPT !.heapGeom[img.geometry] = geometryAppendFrame(GeometryOf(w, i)),
               !.images[i].appendframeEvents = img.appendframeEvents + 1]

\* Image.appendFrameBuffer(frameBuffer, frameIndex)
appendFrameBuffer(w, i, frameBuffer, frameIndex) ==
  LET img == w.images[i]
      size == GeometryOf(w, i).size
      meta == MetaOf(w, i)
      frameSize == img.numberOfComponents * getDimSize(size, 2, 0)
  IN
  IF meta.numberOfFiles = NULL THEN Outcome(w, TRUE)
  ELSE
  LET full == frameSize * meta.numberOfFiles[1]
      grown == IF Len(img.buffer) # full
               THEN realloc(img, full)
               ELSE [img |-> img, threw |-> FALSE]
      w1 == WithImage(w, i, grown.img)
  IN
  IF grown.threw THEN Outcome(w1, TRUE)
  ELSE IF frameIndex >= meta.numberOfFiles[1] THEN Outcome(w1, TRUE)
  ELSE IF SetOverflows(grown.img.buffer, frameBuffer, frameSize * frameIndex)
  THEN Outcome(w1, TRUE)
  ELSE Outcome(
         appendFrame(
           WithImage(w, i, [grown.img EXCEPT !.buffer =
              SetAt(grown.img.buffer, frameBuffer, frameSize * frameIndex)]),
           i),
         FALSE)

\* Image.setMeta(rhs): the image refers to the object it is handed
setMeta(w, i, metaRef) == [w EXCEPT !.images[i].meta = metaRef]

RECURSIVE copyRsis(_, _, _, _)
\* Image.clone(): the loop that hands the per-offset RSIs to the copy
copyRsis(copy, img, k, secondaryOffsetMax) ==
  IF k >= secondaryOffsetMax THEN copy
  ELSE copyRsis(
         setRescaleSlopeAndIntercept(copy, secondaryOffsetMax,
                                     img.rsis[1][k + 1][1], Some(k)).img,
         img, k + 1, secondaryOffsetMax)

\* Image.clone(): the copy gets a copy of the buffer, and the geometry, the
\* imageUids array and the meta object of the image themselves
clone(w, i, j) ==
  LET img == w.images[i]
      clonedBuffer == img.buffer
      copy0 == NewImage(w.heapGeom, img.geometry, clonedBuffer, img.imageUids)
      copy1 == IF img.isConstantRSI
               THEN setRescaleSlopeAndIntercept(
                      copy0, getSecondaryOffsetMax(w, i),
                      getRescaleSlopeAndIntercept(img, GeometryOf(w, i).size,
                                                  NULL)[1],
                      NULL).img
               ELSE copyRsis(copy0, img, 0, getSecondaryOffsetMax(w, i))
      copy2 == [copy1 EXCEPT
                  !.photometricInterpretation = img.photometricInterpretation,
                  !.planarConfiguration = img.planarConfiguration,
                  !.meta = img.meta]
  IN WithImage(w, j, copy2)

RECURSIVE scanRange(_, _, _, _)
\* the min/max loop of calculateDataRange and calculateHistogram over the
\* offsets i .. leni - 1; a read past the buffer gives undefined, which
\* compares false and changes nothing
scanRange(buffer, i, leni, acc) ==
  IF i >= leni \/ i >= Len(buffer) THEN acc
  ELSE LET value == buffer[i + 1]
       IN scanRange(buffer, i + 1, leni,
                    [min |-> IF value < acc.min THEN value ELSE acc.min,
                     max |-> IF value > acc.max THEN value ELSE acc.max])

\* Image.prototype.calculateDataRange(): only the first frame is scanned
calculateDataRange(img, sz) ==
  LET leni == IF Len(sz) >= 3 THEN getDimSize(sz, 3, 0)
              ELSE getTotalSize(sz, 0)
  IN scanRange(img.buffer, 0, leni,
               [min |-> img.buffer[1], max |-> img.buffer[1]])

\* Image.getDataRange(): the image after the call and the range returned
getDataRange(img, sz) ==
  LET computed == IF img.dataRange = NULL
                  THEN [img EXCEPT !.dataRange =
                                     Some(calculateDataRange(img, sz))]
                  ELSE img
  IN [img |-> computed, result |-> computed.dataRange[1]]

\* the rescaled values of the buffer, offset by offset
rescaledBuffer(img, sz) ==
  [k \in 1..Len(img.buffer) |-> getRescaledValueAtOffset(img, sz, k - 1)]

\* Image.prototype.calculateRescaledDataRange(): the image after the call
\* (getDataRange fills its cache) and the range returned
calculateRescaledDataRange(img, sz) ==
  IF img.isIdentityRSI THEN getDataRange(img, sz)
  ELSE IF img.isConstantRSI
  THEN LET got == getDataRange(img, sz)
           rsi == getRescaleSlopeAndIntercept(img, sz, NULL)[1]
           resmin == RsiApply(rsi, got.result.min)
           resmax == RsiApply(rsi, got.result.max)
       IN [img |-> got.img,
           result |-> [min |-> IF resmin < resmax THEN resmin ELSE resmax,
                       max |-> IF resmin > resmax THEN resmin ELSE resmax]]
  ELSE LET leni == IF Len(sz) = 3 THEN getDimSize(sz, 3, 0)
                   ELSE getTotalSize(sz, 0)
           rbuf == rescaledBuffer(img, sz)
       IN [img |-> img,
           result |-> scanRange(rbuf, 0, leni,
                                [min |-> rbuf[1], max |-> rbuf[1]])]

\* Image.getRescaledDataRange()
getRescaledDataRange(img, sz) ==
  IF img.rescaledDataRange = NULL
  THEN LET calc == calculateRescaledDataRange(img, sz)
       IN [img |-> [calc.img EXCEPT !.rescaledDataRange = Some(calc.result)],
           result |-> calc.result]
  ELSE [img |-> img, result |-> img.rescaledDataRange[1]]

\* Image.prototype.calculateHistogram(): one pass over getTotalSize()
\* offsets of the buffer
calculateHistogram(img, sz) ==
  LET leni == getTotalSize(sz, 0)
      rbuf == rescaledBuffer(img, sz)
      scanned == 1..Min(leni, Len(img.buffer))
      drange == scanRange(img.buffer, 0, leni,
                         [min |-> img.buffer[1], max |-> img.buffer[1]])
      rrange == scanRange(rbuf, 0, leni, [min |-> rbuf[1], max |-> rbuf[1]])
  IN [dataRange |-> drange,
      rescaledDataRange |-> rrange,
      histogram |->
        [b \in 1..(rrange.max - rrange.min + 1) |->
           <<rrange.min + b - 1,
             Cardinality({k \in scanned : rbuf[k] = rrange.min + b - 1})>>]]

\* Image.getHistogram()
getHistogram(img, sz) ==
  IF img.histogram = NULL
  THEN LET res == calculateHistogram(img, sz)
       IN [img |-> [img EXCEPT !.dataRange = Some(res.dataRange),
                               !.rescaledDataRange = Some(res.rescaledDataRange),
                               !.histogram = Some(res.histogram)],
           result |-> res.histogram]
  ELSE [img |-> img, result |-> img.histogram[1]]

(***************************************************************************)
(* Writes into a buffer: directly through getBuffer(), and by transform,   *)
(* compose and convolute2D, which clone this image and write into the      *)
(* clone.  The buffer is an integer typed array: a write past its end is   *)
(* dropped and NaN is stored as 0.  A sample that is NaN (a product or an  *)
(* operator applied to the undefined of a read past the buffer) is NULL    *)
(* until it is stored.                                                     *)
(***************************************************************************)
\* buffer[offset] = value on a typed array
StoreAt(buffer, offset, value) ==
  IF offset >= 0 /\ offset < Len(buffer)
  THEN [buffer EXCEPT ![offset + 1] = IF value = NULL THEN 0 ELSE value[1]]
  ELSE buffer

\* getBuffer()[offset] = value
setBufferValue(img, offset, value) ==
  [img EXCEPT !.buffer = StoreAt(img.buffer, offset, Some(value))]

\* setPlanarConfiguration(config)
setPlanarConfiguration(img, config) ==
  [img EXCEPT !.planarConfiguration = config]

\* the operators handed to transform: functions of one sample
UnaryOperators == {"plusOne", "negate", "zero"}
ApplyUnary(operator, a) ==
  IF a = NULL THEN NULL
  ELSE CASE operator = "plusOne" -> Some(a[1] + 1)
         [] operator = "negate" -> Some(0 - a[1])
         [] operator = "zero" -> Some(0)

\* the operators handed to compose: functions of two samples; the result
\* is the real number num / den
BinaryOperators == {"add", "subtract", "mean"}
ApplyBinary(operator, a, b) ==
  IF a = NULL \/ b = NULL THEN NULL
  ELSE CASE operator = "add" -> Some([num |-> a[1] + b[1], den |-> 1])
         [] operator = "subtract" -> Some([num |-> a[1] - b[1], den |-> 1])
         [] operator = "mean" -> Some([num |-> a[1] + b[1], den |-> 2])

\* Math.floor of num / den, den > 0
MathFloor(x) == IF x = NULL THEN NULL ELSE Some(x[1].num \div x[1].den)

\* a transform that writes into the buffer of this image as well
transformInPlace(w, i, j, operator) ==
  LET w1 == clone(w, i, j)
      newImage == w1.images[j]
      newBuffer ==
        [k \in 1..Len(newImage.buffer) |->
           StoreAt(newImage.buffer, k - 1,
                   ApplyUnary(operator,
                              getValueAtOffset(newImage, k - 1)))[k]]
  IN WithImage(WithImage(w1, j, [newImage EXCEPT !.buffer = newBuffer]),
               i, [w.images[i] EXCEPT !.buffer = newBuffer])

\* Image.prototype.transform(operator): the world with the new image as
\* image j.  Sample i of the new buffer is read before it is written and
\* no other sample is read for it.
transform(w, i, j, operator) ==
  LET w1 == clone(w, i, j)
      newImage == w1.images[j]
      newBuffer ==
        [k \in 1..Len(newImage.buffer) |->
           StoreAt(newImage.buffer, k - 1,
                   ApplyUnary(operator,
                              getValueAtOffset(newImage, k - 1)))[k]]
  IN WithImage(w1, j, [newImage EXCEPT !.buffer = newBuffer])

\* Image.prototype.compose(rhs, operator): the world with the new image as
\* image j; of rhs only getValueAtOffset is used
compose(w, i, rhs, j, operator) ==
  LET w1 == clone(w, i, j)
      newImage == w1.images[j]
      newBuffer ==
        [k \in 1..Len(newImage.buffer) |->
           StoreAt(newImage.buffer, k - 1,
                   MathFloor(ApplyBinary(
                     operator,
                     getValueAtOffset(w.images[i], k - 1),
                     getValueAtOffset(rhs, k - 1))))[k]]
  IN WithImage(w1, j, [newImage EXCEPT !.buffer = newBuffer])

\* the default weight offset matrix wOff of convoluteBuffer
wOff(ncols, factor) ==
  <<(0 - ncols - 1) * factor, (0 - ncols) * factor, (0 - ncols + 1) * factor,
    0 - factor, 0, 1 * factor,
    (ncols - 1) * factor, ncols * factor, (ncols + 1) * factor>>

\* the border matrices, as the entries of wOff they are filled from
wOff00 == <<4, 4, 5, 4, 4, 5, 7, 7, 8>>
wOff0x == <<1, 1, 2, 4, 4, 5, 7, 7, 8>>
wOff0n == <<1, 1, 2, 4, 4, 5, 4, 4, 5>>
wOffx0 == <<3, 4, 5, 3, 4, 5, 6, 7, 8>>
wOffxn == <<0, 1, 2, 3, 4, 5, 3, 4, 5>>
wOffn0 == <<3, 4, 4, 3, 4, 4, 6, 7, 7>>
wOffnx == <<0, 1, 1, 3, 4, 4, 6, 7, 7>>
wOffnn == <<0, 1, 1, 3, 4, 4, 3, 4, 4>>
wOffAll == <<0, 1, 2, 3, 4, 5, 6, 7, 8>>

\* wOffFinal for column i and row j: the special border cases in the
\* order the source tests them
wOffFinal(i, j, ncols, nrows, factor) ==
  LET pick ==
        IF i = 0 /\ j = 0 THEN wOff00
        ELSE IF i = 0 /\ j = nrows - 1 THEN wOff0n
        ELSE IF i = ncols - 1 /\ j = 0 THEN wOffn0
        ELSE IF i = ncols - 1 /\ j = nrows - 1 THEN wOffnn
        ELSE IF i = 0 /\ j # nrows - 1 /\ j # 0 THEN wOff0x
        ELSE IF i = ncols - 1 /\ j # nrows - 1 /\ j # 0 THEN wOffnx
        ELSE IF i # 0 /\ i # ncols - 1 /\ j = 0 THEN wOffx0
        ELSE IF i # 0 /\ i # ncols - 1 /\ j = nrows - 1 THEN wOffxn
        ELSE wOffAll
  IN [wi \in 1..9 |-> wOff(ncols, factor)[pick[wi] + 1]]

RECURSIVE weighedSum(_, _, _, _, _)
\* newValue: the sum over wi .. 8 of getValueAtOffset(pixelOffset +
\* wOffFinal[wi]) * weights[wi]; NULL (NaN) once a read is past the buffer
weighedSum(img, weights, offsets, pixelOffset, wi) ==
  IF wi > 8 THEN Some(0)
  ELSE LET value == getValueAtOffset(img, pixelOffset + offsets[wi + 1])
           rest == weighedSum(img, weights, offsets, pixelOffset, wi + 1)
       IN IF value = NULL \/ rest = NULL THEN NULL
          ELSE Some(value[1] * weights[wi + 1] + rest[1])

\* the loops over the rows j and the columns i of one component, the
\* cursor being at pixelOffset when they start: pixel j * ncols + i is
\* written at pixelOffset + (j * ncols + i) * factor, the cursor moving by
\* factor after every pixel
convolutePixels(img, sz, weights, buffer, pixelOffset, factor) ==
  LET ncols == SizeGet(sz, 0)
      nrows == SizeGet(sz, 1)
      written(o) == /\ o >= pixelOffset
                    /\ (o - pixelOffset) % factor = 0
                    /\ (o - pixelOffset) \div factor < ncols * nrows
      pixel(o) == (o - pixelOffset) \div factor
  IN [k \in 1..Len(buffer) |->
        IF written(k - 1)
        THEN StoreAt(buffer, k - 1,
                     weighedSum(img, weights,
                                wOffFinal(pixel(k - 1) % ncols,
                                          pixel(k - 1) \div ncols,
                                          ncols, nrows, factor),
                                k - 1, 0))[k]
        ELSE buffer[k]]

RECURSIVE convoluteLoop(_, _, _, _, _, _)
\* the loop of convoluteBuffer over the components from c on, the cursor
\* being at pixelOffset: the buffer it leaves behind
convoluteLoop(img, sz, weights, buffer, c, pixelOffset) ==
  LET ncomp == img.numberOfComponents
      interleaved == ncomp = 3 /\ img.planarConfiguration = 0
      factor == IF interleaved THEN 3 ELSE 1
      componentOffset ==
        IF ncomp = 3 /\ ~interleaved THEN getDimSize(sz, 2, 0) ELSE 1
      start == pixelOffset + c * componentOffset
  IN IF c >= ncomp THEN buffer
     ELSE convoluteLoop(
            img, sz, weights,
            convolutePixels(img, sz, weights, buffer, start, factor),
            c + 1, start + getDimSize(sz, 2, 0) * factor)

\* Image.prototype.convoluteBuffer(weights, buffer, startOffset): the
\* buffer after the call
convoluteBuffer(img, sz, weights, buffer, startOffset) ==
  convoluteLoop(img, sz, weights, buffer, 0, startOffset)

RECURSIVE convoluteSlices(_, _, _, _, _)
\* the loop of convolute2D over the slices k .. size.get(2) - 1
convoluteSlices(img, sz, weights, buffer, k) ==
  LET dimOffset == getDimSize(sz, 2, 0) * img.numberOfComponents
  IN IF k >= SizeGet(sz, 2) THEN buffer
     ELSE convoluteSlices(
            img, sz, weights,
            convoluteBuffer(img, sz, weights, buffer, k * dimOffset),
            k + 1)

\* Image.prototype.convolute2D(weights): the world with the new image as
\* image j, or the throw for a kernel that has not 9 weights
convolute2D(w, i, j, weights) ==
  IF Len(weights) # 9 THEN Outcome(w, TRUE)
  ELSE LET w1 == clone(w, i, j)
           newImage == w1.images[j]
           newBuffer == convoluteSlices(w.images[i], GeometryOf(w, i).size,
                                        weights, newImage.buffer, 0)
       IN Outcome(WithImage(w1, j, [newImage EXCEPT !.buffer = newBuffer]),
                  FALSE)

(***************************************************************************)
(* SpecIter: one iterator, created once, then pulled.                      *)
(***************************************************************************)
Sizes3D == {<<c, r, s>> : c \in 1..MaxDim, r \in 1..MaxDim, s \in 1..MaxDim}

\* geometries with time frames
Sizes4D == {sz \o <<f>> : sz \in Sizes3D, f \in 2..MaxFrames}

\* the indices inside a geometry of size sz
Positions(sz) ==
  {p \in [1..Len(sz) -> 0..(MaxDim + MaxFrames)] :
     \A d \in 1..Len(sz) : p[d] < sz[d]}

Starts == 0..MaxStart
Ends == 0..MaxEnd
Increments == 1..MaxIncrement
Counts == 1..MaxCount
Skips == 0..1

RegionTriples == {<<a, n, b>> : a \in Skips, n \in Counts, b \in Skips}
RegionLists ==
  {<<t>> : t \in RegionTriples} \cup
  {<<t, u>> : t \in RegionTriples, u \in RegionTriples}

\* how the iterator was made: by a primitive called with `params`, or by a
\* planner for an image of a size and component count
DirectPlan(name) ==
  [via |-> name, size |-> <<>>, numberOfComponents |-> 1,
   position |-> <<>>, viewOrientation |-> NoOrientation, params |-> <<>>]

DirectPlanWith(name, params) == [DirectPlan(name) EXCEPT !.params = params]

PlannerPlan(sz, ncomp, pos, vo) ==
  [via |-> "getSliceIterator", size |-> sz, numberOfComponents |-> ncomp,
   position |-> pos, viewOrientation |-> vo, params |-> <<>>]

CreateSimpleRange ==
  \E s \in Starts, e \in Ends, inc \in Increments :
    /\ it = simpleRange(s, e, inc)
    /\ plan = DirectPlanWith("simpleRange", <<s, e, inc>>)

CreateRange ==
  \E s \in Starts, e \in Ends, inc \in Increments, cm \in Counts,
     ci \in Counts, r1 \in BOOLEAN, r2 \in BOOLEAN :
    /\ it = range(s, e, inc, cm, ci, r1, r2)
    /\ plan = DirectPlanWith("range", <<s, e, inc, cm, ci, r1, r2>>)

CreateRangeRegion ==
  \E s \in Starts, e \in Ends, inc \in Increments, rs \in Counts,
     ro \in Skips :
    /\ it = rangeRegion(s, e, inc, rs, ro)
    /\ plan = DirectPlanWith("rangeRegion", <<s, e, inc, rs, ro>>)

CreateRangeRegions ==
  \E s \in Starts, e \in Ends, inc \in Increments, rg \in RegionLists :
    /\ it = rangeRegions(s, e, inc, rg)
    /\ plan = DirectPlanWith("rangeRegions", <<s, e, inc, rg>>)

CreateRange3d ==
  \E s \in Starts, n \in 0..MaxCount, inc \in Increments, pl \in BOOLEAN :
    /\ it = range3d(s, s + 3 * n, inc, pl)
    /\ plan = DirectPlanWith("range3d", <<s, s + 3 * n, inc, pl>>)

CreateSliceIterator ==
  \E sz \in Sizes3D \cup Sizes4D, ncomp \in {1, 3}, pc \in {0, 1},
     vo \in Orientations \cup {NoOrientation} :
    \E pos \in Positions(sz) :
      /\ ncomp = 1 => pc = 0
      /\ it = getSliceIterator(sz, ncomp, pc, pos, vo)
      /\ plan = PlannerPlan(sz, ncomp, pos, vo)

InitIter ==
  /\ \/ CreateSimpleRange
     \/ CreateRange
     \/ CreateRangeRegion
     \/ CreateRangeRegions
     \/ CreateRange3d
     \/ CreateSliceIterator
  /\ accessLog = <<>>
  /\ lastResult = [done |-> FALSE, threw |-> FALSE]
  /\ pulls = 0
  /\ dones = 0
  /\ images = [k \in {1, 2} |-> NoImage]
  /\ heapGeom = <<>>
  /\ heapUids = <<>>
  /\ heapMeta = <<>>
  /\ call = [op |-> "none", target |-> 0, args |-> <<>>, threw |-> FALSE,
             result |-> NULL]
  /\ supplied = [k \in {1, 2} |-> <<>>]

\* the caller's iterator.next(), for the primitive that made the closure
Pull(kind, r) ==
  /\ it.kind = kind
  /\ pulls < MaxPulls
  /\ it' = r.it
  /\ accessLog' = accessLog \o r.accessed
  /\ lastResult' = [done |-> r.done, threw |-> r.threw]
  /\ pulls' = pulls + 1
  /\ dones' = IF r.done THEN dones + 1 ELSE dones
  /\ UNCHANGED <<plan, imageVars>>

NextSimpleRange == Pull("simpleRange", simpleRangeNext(it))
NextRange == Pull("range", rangeNext(it))
NextRangeRegion == Pull("rangeRegion", rangeRegionNext(it))
NextRangeRegions == Pull("rangeRegions", rangeRegionsNext(it))
NextRange3d == Pull("range3d", range3dNext(it))

NextIter ==
  \/ NextSimpleRange
  \/ NextRange
  \/ NextRangeRegion
  \/ NextRangeRegions
  \/ NextRange3d

SpecIter == InitIter /\ [][NextIter]_vars

(***************************************************************************)
(* SpecRegions and SpecVariableRegions: one iterator made by a region      *)
(* planner, then pulled.                                                   *)
(***************************************************************************)
RegionPlan(via, sz, ncomp, pos, params) ==
  [via |-> via, size |-> sz, numberOfComponents |-> ncomp,
   position |-> pos, viewOrientation |-> NoOrientation, params |-> params]

\* the corners <<min, max>> of a rectangle of a slice, min = <<x0, y0>> and
\* max = <<x1, y1>>, each given as <<point>>; <<<<>>, <<>>>> is both omitted
Corners(sz) ==
  {<<<<>>, <<>>>>} \cup
  {<<<<(<<x0, y0>>)>>, <<(<<x1, y1>>)>>>> :
     x0 \in 0..(sz[1] - 1), x1 \in 0..(sz[1] - 1),
     y0 \in 0..sz[2], y1 \in 0..sz[2]}

\* one row region <<<<x0, y>>, <<x1, y>>>> of a slice
RowRegions(sz) ==
  {<<<<x0, y>>, <<x1, y>>>> :
     x0 \in 0..sz[1], x1 \in 0..sz[1], y \in 0..(sz[2] - 1)}

\* the lists of regions getVariableRegionSliceIterator is called with: the
\* rows of a shape, from its top row down, one region per row
RowLists(sz) ==
  {regions \in UNION {[1..n -> {r \in RowRegions(sz) : r[1][1] <= r[2][1]}] :
                        n \in 1..MaxRows} :
     \A k \in 1..(Len(regions) - 1) :
       regions[k + 1][1][2] = regions[k][1][2] + 1}

\* the iterator state besides the closure, at creation
Unpulled ==
  /\ accessLog = <<>>
  /\ lastResult = [done |-> FALSE, threw |-> FALSE]
  /\ pulls = 0
  /\ dones = 0
  /\ images = [k \in {1, 2} |-> NoImage]
  /\ heapGeom = <<>>
  /\ heapUids = <<>>
  /\ heapMeta = <<>>
  /\ call = [op |-> "none", target |-> 0, args |-> <<>>, threw |-> FALSE,
             result |-> <<>>]
  /\ supplied = [k \in {1, 2} |-> <<>>]

InitRegions ==
  /\ \E sz \in Sizes3D, ncomp \in {1, 3} :
       \E pos \in Positions(sz), c \in Corners(sz) :
         /\ c[1] # <<>> =>
              (c[1][1][1] <= c[2][1][1] /\ c[1][1][2] <= c[2][1][2])
         /\ ncomp = 3 => c = <<<<>>, <<>>>>
         /\ it = getRegionSliceIterator(sz, ncomp, pos, c[1], c[2])
         /\ plan = RegionPlan("getRegionSliceIterator", sz, ncomp, pos, c)
  /\ Unpulled

NextRegions == NextRangeRegion

SpecRegions == InitRegions /\ [][NextRegions]_vars

InitVariableRegions ==
  /\ \E sz \in Sizes3D, ncomp \in {1, 3} :
       \E k \in 0..(sz[3] - 1), regions \in RowLists(sz) :
         /\ ncomp = 3 => Len(regions) = 1
         /\ it = getVariableRegionSliceIterator(sz, ncomp, <<0, 0, k>>,
                                                regions)
         /\ plan = RegionPlan("getVariableRegionSliceIterator", sz, ncomp,
                              <<0, 0, k>>, <<regions>>)
  /\ Unpulled

NextVariableRegions == NextRangeRegions

SpecVariableRegions == InitVariableRegions /\ [][NextVariableRegions]_vars

(***************************************************************************)
(* The image specifications: the operations a caller can make on an image  *)
(* that was loaded from a first slice, and on its clone.                   *)
(***************************************************************************)
ImageIds == {1, 2}

\* columns and rows of every slice of the modelled image
SliceDims == <<2, 1>>

Positions1D == 1..MaxPos
Fills == 1..MaxFill
TimeIds == {0, 1}
RSIs == {RSI(1, 0), RSI(2, 1)}
WindowLevels == {1, 2}
PresetName == "minmax"

\* the samples of a slice or frame: `n` values starting at `fill`
FillBuffer(fill, n) == [k \in 1..n |-> fill + k - 1]

Preset(wl) == [perslice |-> NULL, wl |-> <<wl>>]
PresetsOf(wl) == [pkey \in {PresetName} |-> Preset(wl)]

\* the meta object of a loaded slice
MetaObject(numberOfFiles, windowPresets, modality) ==
  [numberOfFiles |-> numberOfFiles, windowPresets |-> windowPresets,
   Modality |-> modality]

MetaChoices ==
  {MetaObject(nf, wp, Some("CT")) :
     nf \in {NULL, Some(MaxFiles)},
     wp \in {NULL, Some(PresetsOf(1))}}

\* a one-slice Image as appendSlice reads it through its getters
SliceImage(sz, origin, orientation, photometric, meta, buffer, rsi, uid) ==
  [size |-> sz, origin |-> origin, orientation |-> orientation,
   photometricInterpretation |-> photometric, meta |-> meta,
   buffer |-> buffer, rsi |-> rsi, uid |-> uid]

\* a slice of the same series as image i: same dimensions, orientation,
\* photometric interpretation and compared meta
MatchingSlice(w, i, origin, fill, rsi, wl) ==
  LET img == w.images[i]
      g == GeometryOf(w, i)
      meta == MetaOf(w, i)
  IN SliceImage(
       <<SizeGet(g.size, 0), SizeGet(g.size, 1), 1>>, origin, g.orientation,
       img.photometricInterpretation,
       MetaObject(meta.numberOfFiles,
                  IF wl = 0 THEN NULL ELSE Some(PresetsOf(wl)),
                  meta.Modality),
       FillBuffer(fill, SizeGet(g.size, 0) * SizeGet(g.size, 1) *
                        img.numberOfComponents),
       rsi, origin)

\* the slices of the series appendSlice can be called with on image i, each
\* at a position no slice of the image has; a slice carries window presets
\* when the image does (and may lack them)
SeriesSlices(w, i, fills, rsis) ==
  LET g == GeometryOf(w, i)
      wls == IF MetaOf(w, i).windowPresets = NULL
             THEN {0} ELSE {0} \cup WindowLevels
  IN {Some(MatchingSlice(w, i, p, f, r, wl)) :
        p \in Positions1D \ SeqToSet(g.origins), f \in fills,
        r \in rsis, wl \in wls}

\* arguments appendSlice has to refuse: null, and slices that differ from
\* the series of image i in one respect
ForeignSlices(w, i) ==
  LET g == GeometryOf(w, i)
      base == MatchingSlice(w, i, MaxPos, 1, RSI(1, 0), 1)
  IN {NULL,
      Some([base EXCEPT !.size[3] = 2,
                        !.buffer = base.buffer \o base.buffer]),
      Some([base EXCEPT !.size[1] = base.size[1] + 1,
                        !.buffer = Append(base.buffer, 0)]),
      Some([base EXCEPT !.size[2] = base.size[2] + 1,
                        !.buffer = base.buffer \o base.buffer]),
      Some([base EXCEPT !.orientation = g.orientation + 1]),
      Some([base EXCEPT !.photometricInterpretation = "PALETTE COLOR"]),
      Some([base EXCEPT !.meta.Modality = Some("MR")]),
      Some([base EXCEPT !.meta.Modality = NULL])}

TheWorld == World(images, heapGeom, heapUids, heapMeta)

NoCall == [op |-> "none", target |-> 0, args |-> <<>>, threw |-> FALSE,
           result |-> NULL]

Called(op, target, args, threw, result) ==
  [op |-> op, target |-> target, args |-> args, threw |-> threw,
   result |-> result]

\* the record of the slices handed over so far, after the call: a slice
\* appendSlice took into the first time frame is recorded at its origin; a
\* clone starts from the record of its source
Supplied(c) ==
  IF c.op = "appendSlice" /\ ~c.threw /\ c.args[2] = 0
  THEN [supplied EXCEPT ![c.target] =
          (c.args[1][1].origin :> c.args[1][1]) @@ @]
  ELSE IF c.op = "clone"
  THEN [supplied EXCEPT ![2] = supplied[1]]
  ELSE supplied

\* the state after a method call that left the world w behind
Becomes(w, callRecord) ==
  /\ images' = w.images
  /\ heapGeom' = w.heapGeom
  /\ heapUids' = w.heapUids
  /\ heapMeta' = w.heapMeta
  /\ call' = callRecord
  /\ supplied' = Supplied(callRecord)
  /\ UNCHANGED iterVars

FrameCount(sz) == IF Len(sz) = 4 THEN sz[4] ELSE 1

\* the image as the loader builds it from its first slice
LoadedImage(origin, fill, ncomp, rsi, meta) ==
  LET geoms == <<Geometry(<<SliceDims[1], SliceDims[2], 1>>, <<origin>>, 0)>>
      built == NewImage(geoms, 1,
                        FillBuffer(fill, SliceDims[1] * SliceDims[2] * ncomp),
                        1)
      scaled == setRescaleSlopeAndIntercept(built, 1, rsi, NULL).img
      tagged == IF ncomp = 3
                THEN [scaled EXCEPT !.photometricInterpretation = "RGB"]
                ELSE scaled
  IN World([k \in ImageIds |-> IF k = 1 THEN [tagged EXCEPT !.meta = 1]
                               ELSE NoImage],
           geoms, <<<<origin>>>>, <<meta>>)

InitImageWith(ncomps, rsis, metas) ==
  /\ \E origin \in Positions1D, ncomp \in ncomps, rsi \in rsis,
        meta \in metas :
       LET w == LoadedImage(origin, 1, ncomp, rsi, meta)
       IN /\ images = w.images
          /\ heapGeom = w.heapGeom
          /\ heapUids = w.heapUids
          /\ heapMeta = w.heapMeta
          /\ supplied =
               [k \in ImageIds |->
                  IF k = 1
                  THEN origin :> SliceImage(
                         w.heapGeom[1].size, origin, 0,
                         w.images[1].photometricInterpretation, meta,
                         w.images[1].buffer, rsi, origin)
                  ELSE <<>>]
  /\ call = NoCall
  /\ it = NoIterator
  /\ plan = DirectPlan("none")
  /\ accessLog = <<>>
  /\ lastResult = [done |-> FALSE, threw |-> FALSE]
  /\ pulls = 0
  /\ dones = 0

\* appendSlice(rhs, timeId) on image i with a slice of the series
AppendSlice(i, timeIds, fills, rsis) ==
  /\ images[i].alive
  /\ Len(heapUids[images[i].imageUids]) < MaxUids
  /\ \E rhs \in SeriesSlices(TheWorld, i, fills, rsis), timeId \in timeIds :
       LET out == appendSlice(TheWorld, i, rhs, timeId)
       IN Becomes(out.w, Called("appendSlice", i, <<rhs, timeId>>,
                                out.threw, NULL))

\* appendSlice(rhs) on image i with an argument it has to refuse
AppendForeignSlice(i) ==
  /\ images[i].alive
  /\ \E rhs \in ForeignSlices(TheWorld, i) :
       LET out == appendSlice(TheWorld, i, rhs, 0)
       IN Becomes(out.w, Called("appendSlice", i, <<rhs, 0>>,
                                out.threw, NULL))

AppendFrameBufferUpTo(i, frames) ==
  /\ images[i].alive
  /\ FrameCount(heapGeom[images[i].geometry].size) < frames
  /\ \E fill \in Fills, frameIndex \in 0..MaxFiles :
       LET frameBuffer ==
             FillBuffer(fill, SliceDims[1] * SliceDims[2] *
                              images[i].numberOfComponents)
           out == appendFrameBuffer(TheWorld, i, frameBuffer, frameIndex)
       IN Becomes(out.w, Called("appendFrameBuffer", i,
                                <<frameBuffer, frameIndex>>, out.threw, NULL))

\* appendFrameBuffer(frameBuffer, frameIndex) on image i with a frame of the
\* size of its slices
AppendFrameBuffer(i) == AppendFrameBufferUpTo(i, MaxFrames)

AppendFrame(i) ==
  /\ images[i].alive
  /\ FrameCount(heapGeom[images[i].geometry].size) < MaxFrames
  /\ Becomes(appendFrame(TheWorld, i),
             Called("appendFrame", i, <<>>, FALSE, NULL))

SetRescaleSlopeAndIntercept(i) ==
  /\ images[i].alive
  /\ \E inRsi \in RSIs, offset \in {NULL, Some(0)} :
       LET out == setRescaleSlopeAndIntercept(
                    images[i], getSecondaryOffsetMax(TheWorld, i),
                    inRsi, offset)
       IN Becomes(WithImage(TheWorld, i, out.img),
                  Called("setRescaleSlopeAndIntercept", i,
                         <<inRsi, offset>>, out.threw, NULL))

\* setMeta with a meta object the caller built
SetMeta(i) ==
  /\ images[i].alive
  /\ Len(heapMeta) < MaxMetaObjects
  /\ \E meta \in MetaChoices :
       LET w == [TheWorld EXCEPT !.heapMeta = Append(heapMeta, meta)]
       IN Becomes(setMeta(w, i, Len(heapMeta) + 1),
                  Called("setMeta", i, <<meta>>, FALSE, NULL))

Clone ==
  /\ images[1].alive
  /\ ~images[2].alive
  /\ Becomes(clone(TheWorld, 1, 2), Called("clone", 1, <<>>, FALSE, NULL))

GetDataRange(i) ==
  /\ images[i].alive
  /\ LET out == getDataRange(images[i], heapGeom[images[i].geometry].size)
     IN Becomes(WithImage(TheWorld, i, out.img),
                Called("getDataRange", i, <<>>, FALSE, Some(out.result)))

GetRescaledDataRange(i) ==
  /\ images[i].alive
  /\ LET out == getRescaledDataRange(images[i],
                                     heapGeom[images[i].geometry].size)
     IN Becomes(WithImage(TheWorld, i, out.img),
                Called("getRescaledDataRange", i, <<>>, FALSE,
                       Some(out.result)))

GetHistogram(i) ==
  /\ images[i].alive
  /\ LET out == getHistogram(images[i], heapGeom[images[i].geometry].size)
     IN Becomes(WithImage(TheWorld, i, out.img),
                Called("getHistogram", i, <<>>, FALSE, Some(out.result)))

\* meta objects of a series being loaded, without window presets
PlainMetas == {MetaObject(Some(MaxFiles), NULL, Some("CT"))}

\* Spec: one image under its mutating operations
Init ==
  InitImageWith({1, 3}, {RSI(1, 0)},
                PlainMetas \cup {MetaObject(NULL, NULL, Some("CT"))})

Next ==
  \/ AppendSlice(1, TimeIds, {1}, {RSI(1, 0)})
  \/ AppendFrameBuffer(1)
  \/ AppendFrame(1)
  \/ SetRescaleSlopeAndIntercept(1)

Spec == Init /\ [][Next]_vars

\* SpecSlices: one image loaded slice by slice in the first time frame
InitSlices == InitImageWith({1, 3}, RSIs, MetaChoices)

NextSlices ==
  \/ AppendSlice(1, {0}, Fills, RSIs)
  \/ AppendForeignSlice(1)

SpecSlices == InitSlices /\ [][NextSlices]_vars

\* SpecCache: one image that grows while its ranges and histogram are read
InitCache == InitImageWith({1, 3}, RSIs, PlainMetas)

NextCache ==
  \/ AppendSlice(1, {0}, Fills, {RSI(1, 0)})
  \/ AppendFrameBuffer(1)
  \/ GetDataRange(1)
  \/ GetRescaledDataRange(1)
  \/ GetHistogram(1)

SpecCache == InitCache /\ [][NextCache]_vars

\* SpecClone: an image and its clone, each under the mutating operations
InitClone == InitImageWith({1}, RSIs, PlainMetas)

NextClone ==
  \/ Clone
  \/ \E i \in ImageIds :
       \/ AppendSlice(i, {0}, {1}, RSIs)
       \/ AppendFrame(i)
       \/ SetMeta(i)

SpecClone == InitClone /\ [][NextClone]_vars

\* SpecFrames: one image under appendSlice, appendFrame and appendFrameBuffer,
\* frames being appended to an image that has time frames already
InitFrames ==
  InitImageWith({1, 3}, {RSI(1, 0)},
                PlainMetas \cup {MetaObject(NULL, NULL, Some("CT"))})

NextFrames ==
  \/ AppendSlice(1, TimeIds, {1}, {RSI(1, 0)})
  \/ AppendFrame(1)
  \/ AppendFrameBufferUpTo(1, MaxFrames + 1)

SpecFrames == InitFrames /\ [][NextFrames]_vars

\* SpecWrites: an image is built, then cloned, transformed, composed and
\* convoluted, and samples are written into its buffer and into the buffer
\* of the image derived from it
WrittenValues == {MaxSample}
IdentityKernel == <<0, 0, 0, 0, 1, 0, 0, 0, 0>>
GradedKernel == <<1, 2, 3, 4, 5, 6, 7, 8, 9>>
Kernels == {IdentityKernel, GradedKernel, <<1>>}

\* the offset of the last sample of the first slice of image i
LastOfFirstSlice(i) ==
  images[i].numberOfComponents * SliceDims[1] * SliceDims[2] - 1

\* getBuffer()[offset] = value on image i
SetBufferValue(i, offsets) ==
  /\ images[i].alive
  /\ \E offset \in offsets, value \in WrittenValues :
       Becomes(WithImage(TheWorld, i,
                         setBufferValue(images[i], offset, value)),
               Called("setBufferValue", i, <<offset, value>>, FALSE, NULL))

SetPlanarConfiguration(i) ==
  /\ images[i].alive
  /\ images[i].numberOfComponents = 3
  /\ \E config \in {0, 1} :
       Becomes(WithImage(TheWorld, i,
                         setPlanarConfiguration(images[i], config)),
               Called("setPlanarConfiguration", i, <<config>>, FALSE, NULL))

\* image j becomes images[i].transform(operator)
Transform(i, j) ==
  /\ images[i].alive
  /\ \E operator \in UnaryOperators :
       Becomes(transform(TheWorld, i, j, operator),
               Called("transform", i, <<operator>>, FALSE, NULL))

\* the images handed to images[i].compose: the image itself, and images
\* of other samples that are as long as its buffer or one sample shorter
ComposedWith(i) ==
  {images[i]} \cup
    {[buffer |-> FillBuffer(MaxFill, n)] :
       n \in {Len(images[i].buffer) - 1, Len(images[i].buffer)}}

\* image j becomes images[i].compose(rhs, operator)
Compose(i, j) ==
  /\ images[i].alive
  /\ \E rhs \in ComposedWith(i), operator \in BinaryOperators :
       Becomes(compose(TheWorld, i, rhs, j, operator),
               Called("compose", i, <<rhs.buffer, operator>>, FALSE, NULL))

\* image j becomes images[i].convolute2D(weights)
Convolute2D(i, j) ==
  /\ images[i].alive
  /\ \E weights \in Kernels :
       LET out == convolute2D(TheWorld, i, j, weights)
       IN Becomes(out.w, Called("convolute2D", i, <<weights>>, out.threw,
                                NULL))

InitWrites ==
  /\ InitImageWith({1, 3}, {RSI(1, 0)}, PlainMetas)
  /\ heapGeom[1].origins = <<1>>

NextWrites ==
  \/ /\ ~images[2].alive
     /\ Len(heapGeom[1].origins) < 2
     /\ AppendSlice(1, {0}, {1}, {RSI(1, 0)})
  \/ ~images[2].alive /\ SetPlanarConfiguration(1)
  \/ Clone
  \/ GetDataRange(1)
  \/ SetBufferValue(1, {0})
  \/ SetBufferValue(2, {0, LastOfFirstSlice(2)})
  \/ Transform(1, 2)
  \/ Compose(1, 2)
  \/ Convolute2D(1, 2)

SpecWrites == InitWrites /\ [][NextWrites]_vars

\* SpecConvolute: an image built from a whole volume of samples that all
\* differ, then convoluted
InitConvolute ==
  /\ \E sz \in Sizes3D, ncomp \in {1, 3}, config \in {0, 1} :
       LET origins == [k \in 1..sz[3] |-> k]
           geoms == <<Geometry(sz, origins, 0)>>
           built == NewImage(geoms, 1,
                             FillBuffer(1, ncomp * getTotalSize(sz, 0)), 1)
       IN /\ ncomp = 1 => config = 0
          /\ images = [k \in ImageIds |->
                         IF k = 1 THEN setPlanarConfiguration(built, config)
                         ELSE NoImage]
          /\ heapGeom = geoms
          /\ heapUids = <<origins>>
  /\ heapMeta = <<>>
  /\ supplied = [k \in ImageIds |-> <<>>]
  /\ call = NoCall
  /\ it = NoIterator
  /\ plan = DirectPlan("none")
  /\ accessLog = <<>>
  /\ lastResult = [done |-> FALSE, threw |-> FALSE]
  /\ pulls = 0
  /\ dones = 0

NextConvolute == Convolute2D(1, 2)

SpecConvolute == InitConvolute /\ [][NextConvolute]_vars

(***************************************************************************)
(* Properties of the iterators, checked under SpecIter.                    *)
(***************************************************************************)

\* the iterator came from getSliceIterator on a one-component image with a
\* view orientation, and has been drained
DrainedOrientedSlice ==
  /\ plan.via = "getSliceIterator"
  /\ plan.numberOfComponents = 1
  /\ plan.viewOrientation # NoOrientation
  /\ lastResult.done

\* C1: for a one-component image and each of the six view orientations, the
\* drained slice iterator has emitted as many values as the plane has
\* samples and has read no storage offset twice.
C1_SliceIteratorVisitsPlaneOnce ==
  DrainedOrientedSlice =>
    /\ Len(accessLog) = PlaneSampleCount(plan.size, plan.viewOrientation[2])
    /\ Cardinality(SeqToSet(accessLog)) = Len(accessLog)

\* C9: for every primitive, once next() has returned done, every later
\* next() returns done and the accessor is not called again.
C9_DoneIsFinal ==
  [][lastResult.done => (lastResult'.done /\ accessLog' = accessLog)]_vars

\* an iterator that emitted values was pulled again after it reported done
C9_PulledAfterDone == dones >= 2 /\ accessLog # <<>>

\* C10: for every primitive, every offset passed to the accessor lies in
\* [start, end), so an iterator with start = end reads nothing.
C10_EndIsExclusive ==
  \A k \in 1..Len(accessLog) :
    it.start <= accessLog[k] /\ accessLog[k] < it.end

(***************************************************************************)
(* Properties of appendSlice, checked under SpecSlices.                    *)
(***************************************************************************)

\* the geometry of image 1, and the number of samples of one of its slices
Geometry1 == heapGeom[images[1].geometry]
SliceSize1 ==
  images[1].numberOfComponents * SizeGet(Geometry1.size, 0) *
    SizeGet(Geometry1.size, 1)

\* every slice of image 1 came from the constructor or from an appendSlice
\* call that returned
OnlySuccessfulAppends == SeqToSet(Geometry1.origins) = DOMAIN supplied[1]

\* the samples of slice k (from 1) of image 1
SliceSamples(k) ==
  SubSeq(images[1].buffer, (k - 1) * SliceSize1 + 1, k * SliceSize1)

\* C2: after successful appendSlice calls of the first time frame, in any
\* order of position, the origins are in geometric order and the samples
\* at [k*sliceSize, (k+1)*sliceSize) are those of the slice image supplied
\* for slice k; no stored slice is lost or overwritten by the shift.
C2_SlicesInGeometricOrder ==
  OnlySuccessfulAppends =>
    LET n == Len(Geometry1.origins)
    IN /\ \A k \in 1..(n - 1) : Geometry1.origins[k] < Geometry1.origins[k + 1]
       /\ n * SliceSize1 <= Len(images[1].buffer)
       /\ \A k \in 1..n :
            SliceSamples(k) = supplied[1][Geometry1.origins[k]].buffer

\* a slice went in between two stored slices, and one before all of them
C2_InsertedInBetween ==
  /\ OnlySuccessfulAppends
  /\ Len(Geometry1.origins) = 3
  /\ call.op = "appendSlice" /\ ~call.threw
  /\ call.args[1][1].origin = Geometry1.origins[2]
  /\ supplied[1][Geometry1.origins[1]].buffer #
       supplied[1][Geometry1.origins[3]].buffer

\* C4: after appendSlice of a slice with another RSI, the rescaled value
\* of every sample of every slice k is the RSI of the slice image that
\* supplied slice k applied to the stored sample.
C4_EachSliceKeepsItsRsi ==
  (OnlySuccessfulAppends /\ call.op = "appendSlice" /\ ~call.threw) =>
    \A k \in 1..Len(Geometry1.origins) :
      \A o \in ((k - 1) * SliceSize1)..(k * SliceSize1 - 1) :
        getRescaledValueAtOffset(images[1], Geometry1.size, o) =
          RsiApply(supplied[1][Geometry1.origins[k]].rsi,
                   images[1].buffer[o + 1])

\* the argument is one appendSlice of image 1 refuses: null, more than one
\* slice, other column or row count, other orientation, other photometric
\* interpretation, a compared meta key that differs or is missing, or the
\* image has no meta.numberOfFiles
RefusedByImage1(rhsOpt) ==
  LET meta == MetaOf(TheWorld, 1)
  IN \/ rhsOpt = NULL
     \/ rhsOpt # NULL /\
        \/ rhsOpt[1].size[3] # 1
        \/ rhsOpt[1].size[1] # Geometry1.size[1]
        \/ rhsOpt[1].size[2] # Geometry1.size[2]
        \/ rhsOpt[1].orientation # Geometry1.orientation
        \/ rhsOpt[1].photometricInterpretation #
             images[1].photometricInterpretation
        \/ \E key \in {"Modality"} :
             meta[key] # NULL /\ rhsOpt[1].meta[key] # meta[key]
        \/ meta.numberOfFiles = NULL

\* C8: an appendSlice call whose argument is refused throws and leaves the
\* buffer, the geometry, the RSI state, the imageUids and the window
\* presets as they were before the call.
C8_RejectedAppendLeavesImage ==
  [][(call'.op = "appendSlice" /\ RefusedByImage1(call'.args[1])) =>
       /\ call'.threw
       /\ UNCHANGED <<images, heapGeom, heapUids, heapMeta>>]_vars

\* a slice with another photometric interpretation was refused by an image
\* that holds more than one slice
C8_ForeignSliceRefused ==
  /\ call.op = "appendSlice" /\ call.threw
  /\ call.args[1] # NULL
  /\ call.args[1][1].photometricInterpretation #
       images[1].photometricInterpretation
  /\ Len(Geometry1.origins) >= 2

(***************************************************************************)
(* Properties of the RSI state and of the buffer length, checked under     *)
(* Spec.                                                                   *)
(***************************************************************************)

\* C3: setRescaleSlopeAndIntercept(rsi, offset) on an image in constant
\* mode, with an rsi that differs from the stored one and an offset, puts
\* the image in per-offset mode with a sequence of the secondary-offset
\* count and the new rsi at offset; the image never returns to constant
\* mode.
C3_SwitchesToPerOffsetMode ==
  /\ [][(/\ call'.op = "setRescaleSlopeAndIntercept"
         /\ call'.args[2] # NULL
         /\ images[1].isConstantRSI
         /\ ~RsiEquals(images[1].rsi[1], call'.args[1]))
        => (/\ ~images'[1].isConstantRSI
            /\ images'[1].rsis # NULL
            /\ Len(images'[1].rsis[1]) =
                 getSecondaryOffsetMax(TheWorld, 1) + 1
            /\ images'[1].rsis[1][call'.args[2][1] + 1] =
                 Some(call'.args[1]))]_vars
  /\ [][~images[1].isConstantRSI => ~images'[1].isConstantRSI]_vars

\* numberOfComponents times the total voxel count of the geometry
VoxelSamples1 ==
  images[1].numberOfComponents * getTotalSize(Geometry1.size, 0)

\* the samples of meta.numberOfFiles slices, for an image whose meta has
\* the number
DeclaredSamples1 == SliceSize1 * MetaOf(TheWorld, 1).numberOfFiles[1]

\* the number of frames of a geometry with a fourth dimension, else 1
Frames1 == IF Len(Geometry1.size) = 4 THEN Geometry1.size[4] ELSE 1

BufferLength1 == Len(images[1].buffer)

\* C5 as stated: after every completed operation the buffer holds
\* numberOfComponents times the total voxel count of the geometry.
C5_BufferLengthIsVoxelCount == ~call.threw => BufferLength1 = VoxelSamples1

\* C5, amended: the constructed image holds numberOfComponents times its
\* voxel count; a completed appendSlice leaves the buffer at the size of
\* meta.numberOfFiles slices (times the frame count of a geometry with
\* frames), a completed appendFrameBuffer at the size of
\* meta.numberOfFiles slices, and appendFrame leaves the length alone.
C5_BufferLengthIsDeclaredSize ==
  /\ (call.op = "none" => BufferLength1 = VoxelSamples1)
  /\ [][/\ (call'.op = "appendSlice" /\ ~call'.threw) =>
             BufferLength1' = DeclaredSamples1' * Frames1'
        /\ (call'.op = "appendFrameBuffer" /\ ~call'.threw) =>
             BufferLength1' = DeclaredSamples1'
        /\ call'.op = "appendFrame" => BufferLength1' = BufferLength1]_vars

\* appendSlice returned and the buffer holds more than the voxels of the
\* geometry
C5_PreallocatedBySlice ==
  /\ call.op = "appendSlice" /\ ~call.threw
  /\ BufferLength1 > VoxelSamples1

(***************************************************************************)
(* Property of clone, checked under SpecClone.                             *)
(***************************************************************************)

\* what can be observed on image j
Observable(j) ==
  [buffer |-> images[j].buffer,
   geometry |-> heapGeom[images[j].geometry],
   imageUids |-> heapUids[images[j].imageUids],
   rsi |-> <<images[j].rsi, images[j].rsis, images[j].isConstantRSI>>,
   meta |-> MetaOf(TheWorld, j)]

\* C6: once the image is cloned, no appendSlice, appendFrame or setMeta on
\* one of the two images changes the buffer, the geometry, the imageUids,
\* the RSI or the meta of the other.
C6_CloneSharesNothing ==
  [][\A j \in ImageIds :
       (/\ images[1].alive /\ images[2].alive
        /\ call'.op \in {"appendSlice", "appendFrame", "setMeta"}
        /\ call'.target # j)
       => Observable(j)' = Observable(j)]_vars

(***************************************************************************)
(* Property of the cached values, checked under SpecCache.                 *)
(***************************************************************************)

\* image 1 with nothing cached
Uncached1 ==
  [images[1] EXCEPT !.dataRange = NULL, !.rescaledDataRange = NULL,
                    !.histogram = NULL]

\* C7: what getDataRange, getRescaledDataRange and getHistogram return is
\* computed from the buffer as it is at the call, also after appendSlice
\* or appendFrameBuffer changed the buffer.
C7_GettersReadCurrentBuffer ==
  LET sz == Geometry1.size
      hist == calculateHistogram(Uncached1, sz)
  IN /\ call.op = "getDataRange" =>
          call.result[1] \in {calculateDataRange(Uncached1, sz),
                              hist.dataRange}
     /\ call.op = "getRescaledDataRange" =>
          call.result[1] \in {calculateRescaledDataRange(Uncached1, sz).result,
                              hist.rescaledDataRange}
     /\ call.op = "getHistogram" => call.result[1] = hist.histogram

(***************************************************************************)
(* Properties of the sequences the iterators emit, checked under SpecIter. *)
(***************************************************************************)

\* the accessor has been called with the offsets of `expected`, in that
\* order, as far as the iterator was pulled; next() has not thrown, and
\* reports done only after the last of them
EmitsExactly(expected) ==
  /\ ~lastResult.threw
  /\ Len(accessLog) <= Len(expected)
  /\ accessLog = SubSeq(expected, 1, Len(accessLog))
  /\ lastResult.done => accessLog = expected

\* the offsets k*sliceSize .. (k+1)*sliceSize - 1 of the slice the planned
\* position lies in
SliceOffsets ==
  LET sliceSize == plan.size[1] * plan.size[2]
  IN [j \in 1..sliceSize |-> plan.position[3] * sliceSize + j - 1]

\* C11: for a one-component image and no view orientation, the iterator of
\* getSliceIterator emits the offsets k*sliceSize .. (k+1)*sliceSize - 1 in
\* ascending order, k being the slice coordinate of the position; the
\* column, row and time of the position play no part.
C11_DefaultSliceIsAscending ==
  (/\ plan.via = "getSliceIterator"
   /\ plan.numberOfComponents = 1
   /\ plan.viewOrientation = NoOrientation)
  => EmitsExactly(SliceOffsets)

\* a slice other than the first was drained from a position with a column,
\* a row and a time frame other than 0
C11_DrainedFromInsidePosition ==
  /\ plan.via = "getSliceIterator"
  /\ plan.numberOfComponents = 1
  /\ plan.viewOrientation = NoOrientation
  /\ Len(plan.position) = 4
  /\ \A d \in 1..4 : plan.position[d] >= 1
  /\ lastResult.done
  /\ Len(accessLog) >= 4

\* C12: with min and max omitted, the iterator of getRegionSliceIterator
\* on a one-component image emits every sample of the slice at the position
\* once, in row-major order: ncols*nrows values.
C12_DefaultRegionCoversSlice ==
  (/\ plan.via = "getRegionSliceIterator"
   /\ plan.numberOfComponents = 1
   /\ plan.params = <<<<>>, <<>>>>)
  => EmitsExactly(SliceOffsets)

RECURSIVE RowOffsets(_, _, _)
\* the offsets of the columns x0 .. x1-1 of row y, for each region of the
\* list in list order; a region of zero width contributes nothing
RowOffsets(regions, base, ncols) ==
  IF regions = <<>> THEN <<>>
  ELSE LET x0 == regions[1][1][1]
           x1 == regions[1][2][1]
           y == regions[1][1][2]
       IN [c \in 1..(x1 - x0) |-> base + y * ncols + x0 + c - 1] \o
          RowOffsets(Tail(regions), base, ncols)

\* C13: the iterator of getVariableRegionSliceIterator emits, for each row
\* of non-zero width in list order, the samples at columns x0 .. x1-1 of
\* row y, and then reports done without error.
C13_VariableRegionsEmitRows ==
  (/\ plan.via = "getVariableRegionSliceIterator"
   /\ plan.numberOfComponents = 1)
  => EmitsExactly(
       RowOffsets(plan.params[1],
                  plan.position[3] * plan.size[1] * plan.size[2],
                  plan.size[1]))


(***************************************************************************)
(* Properties of the image uids kept by appendSlice, checked under         *)
(* SpecSlices.                                                             *)
(***************************************************************************)

\* the index of slice k (from 1) of image 1 in the first time frame
SliceIndex1(k) ==
  [d \in 1..Len(Geometry1.size) |-> IF d = 3 THEN k - 1 ELSE 0]

\* imageUids holds one uid per slice of image 1, and getImageUid of the
\* index of slice k is the uid of the slice image stored as slice k
UidsFollowSlices ==
  LET n == Len(Geometry1.origins)
  IN /\ Len(heapUids[images[1].imageUids]) = n
     /\ \A k \in 1..n :
          getImageUid(TheWorld, 1, Some(SliceIndex1(k))) =
            Some(supplied[1][Geometry1.origins[k]].uid)

\* C14: after successful appendSlice calls, for one- and three-component
\* images alike, imageUids has one entry per secondary offset, aligned with
\* the slices: getImageUid of the index of slice k is the uid of the slice
\* image stored at k.
C14_UidsAlignedWithSlices == OnlySuccessfulAppends => UidsFollowSlices


(***************************************************************************)
(* Properties of the constant rescale slope and intercept, checked under   *)
(* Spec.                                                                   *)
(***************************************************************************)

\* C15: while image 1 holds one RSI for all its slices, after any sequence
\* of setRescaleSlopeAndIntercept calls the rescaled value at every offset
\* of the buffer is value * slope + intercept of the RSI stored now, and
\* the identity flag, under which the value is returned as it is, is set
\* only when the stored RSI is the identity.
C15_ConstantRsiIsApplied ==
  images[1].isConstantRSI =>
    /\ \A o \in 0..(Len(images[1].buffer) - 1) :
         getRescaledValueAtOffset(images[1], Geometry1.size, o) =
           RsiApply(images[1].rsi[1], images[1].buffer[o + 1])
    /\ images[1].isIdentityRSI => RsiIsID(images[1].rsi[1])

\* a call stored an RSI that is not the identity, and it changes a sample
C15_StoredRsiChangesValues ==
  /\ call.op = "setRescaleSlopeAndIntercept" /\ ~call.threw
  /\ images[1].isConstantRSI
  /\ images[1].rsi[1] = call.args[1]
  /\ ~RsiIsID(images[1].rsi[1])
  /\ \E o \in 0..(Len(images[1].buffer) - 1) :
       getRescaledValueAtOffset(images[1], Geometry1.size, o) #
         images[1].buffer[o + 1]


(***************************************************************************)
(* Properties of range, rangeRegion and range3d called directly, checked   *)
(* under SpecIter.  plan.params holds the arguments of the call.           *)
(***************************************************************************)

\* the offsets of n triples from start, the components S apart and the
\* triples `step` apart
Triples(start, n, S, step) ==
  [j \in 1..(3 * n) |-> start + ((j - 1) \div 3) * step + ((j - 1) % 3) * S]

\* C16: range3d in planar mode over [start, end), end - start a multiple of
\* 3, emits exactly (end - start) / 3 triples, the k-th reading start + k,
\* start + k + S and start + k + 2S with S = (end - start) / 3, and never
\* reads an offset >= end.
C16_PlanarTriples ==
  (plan.via = "range3d" /\ plan.params[4] /\ plan.params[3] = 1) =>
    LET start == plan.params[1]
        S == (plan.params[2] - start) \div 3
    IN /\ EmitsExactly(Triples(start, S, S, 1))
       /\ \A k \in 1..Len(accessLog) : accessLog[k] < plan.params[2]

\* C17: range with reverse1 = reverse2 = false and countMax = end - start
\* reads exactly the offsets simpleRange(start, end, increment) reads, then
\* reports done, whatever countIncrement is.
C17_RangeReducesToSimpleRange ==
  (/\ plan.via = "range"
   /\ ~plan.params[6] /\ ~plan.params[7]
   /\ plan.params[1] <= plan.params[2]
   /\ plan.params[4] = plan.params[2] - plan.params[1]) =>
    EmitsExactly(getIteratorValues(
      simpleRange(plan.params[1], plan.params[2], plan.params[3])))

\* the offsets start + r * (regionSize * increment + regionOffset) +
\* c * increment, 0 <= c < regionSize, below end
RegionOffsets(start, end, increment, regionSize, regionOffset) ==
  {o \in start..(end - 1) :
     \E r \in 0..end, c \in 0..(regionSize - 1) :
       o = start + r * (regionSize * increment + regionOffset) + c * increment}

\* C18: rangeRegion reads exactly the offsets start + r * (regionSize *
\* increment + regionOffset) + c * increment below end, in ascending order,
\* and reports done without an error once the next offset is end or more.
C18_RegionOffsetsAscending ==
  plan.via = "rangeRegion" =>
    LET expected == RegionOffsets(plan.params[1], plan.params[2],
                                  plan.params[3], plan.params[4],
                                  plan.params[5])
    IN /\ ~lastResult.threw
       /\ \A k \in 1..(Len(accessLog) - 1) : accessLog[k] < accessLog[k + 1]
       /\ SeqToSet(accessLog) \subseteq expected
       /\ \A o \in expected :
            (\E k \in 1..Len(accessLog) : accessLog[k] > o) =>
              o \in SeqToSet(accessLog)
       /\ lastResult.done => SeqToSet(accessLog) = expected

\* a rangeRegion was drained after it skipped between two regions, its
\* last skip taking the cursor to end or beyond
C18_DrainedAcrossSkip ==
  /\ plan.via = "rangeRegion"
  /\ plan.params[5] > 0
  /\ lastResult.done
  /\ \E k \in 1..(Len(accessLog) - 1) :
       accessLog[k + 1] > accessLog[k] + plan.params[3]
  /\ it.regionElementCount = 0
  /\ it.nextIndex >= it.end

\* C19: range3d in interleaved mode with increment 1 over [start, end),
\* end - start a multiple of 3, emits exactly (end - start) / 3 triples,
\* the k-th reading start + 3k, start + 3k + 1 and start + 3k + 2.
C19_InterleavedTriples ==
  (plan.via = "range3d" /\ ~plan.params[4] /\ plan.params[3] = 1) =>
    EmitsExactly(Triples(plan.params[1],
                         (plan.params[2] - plan.params[1]) \div 3, 1, 3))

\* an interleaved range3d over two pixels was drained
C19_DrainedTwoPixels ==
  /\ plan.via = "range3d" /\ ~plan.params[4] /\ plan.params[3] = 1
  /\ plan.params[2] - plan.params[1] = 6
  /\ lastResult.done
  /\ Len(accessLog) = 6


(***************************************************************************)
(* Property of the buffers of an image and of the image cloned from it,    *)
(* checked under SpecWrites.                                               *)
(***************************************************************************)

\* the step wrote into the buffer of image 2, the image cloned or derived
\* from image 1
WroteIntoClone ==
  \/ call'.op \in {"transform", "compose", "convolute2D"}
  \/ call'.op = "setBufferValue" /\ call'.target = 2

\* C20: a write into the buffer of the clone, directly or by transform,
\* compose or convolute2D, changes no sample of the source's buffer and not
\* the value the source's getDataRange returns; a write into the source's
\* buffer changes no sample of the clone's buffer.
C20_WritesStayInOneBuffer ==
  [][/\ WroteIntoClone =>
          /\ images'[1].buffer = images[1].buffer
          /\ getDataRange(images'[1], Geometry1'.size).result =
               getDataRange(images[1], Geometry1.size).result
     /\ (call'.op = "setBufferValue" /\ call'.target = 1 /\ images[2].alive)
          => images'[2].buffer = images[2].buffer]_vars

\* convolute2D gave an image whose samples differ from those of its
\* source, whose data range was cached before
C20_ConvolutedAfterCaching ==
  /\ call.op = "convolute2D" /\ ~call.threw
  /\ images[2].alive
  /\ images[1].dataRange # NULL
  /\ Len(Geometry1.origins) = 2
  /\ images[2].buffer # images[1].buffer


(***************************************************************************)
(* Property of the histogram, checked under SpecCache.                     *)
(***************************************************************************)

\* h holds one bucket for every integer from the least to the greatest
\* rescaled value of the buffer of image 1, and the count of a bucket is
\* the number of samples of the buffer with that rescaled value
CountsEverySample(h) ==
  LET rbuf == rescaledBuffer(images[1], Geometry1.size)
      values == SeqToSet(rbuf)
      rmin == CHOOSE v \in values : \A u \in values : v <= u
      rmax == CHOOSE v \in values : \A u \in values : v >= u
  IN /\ Len(h) = rmax - rmin + 1
     /\ \A b \in 1..Len(h) :
          h[b] = <<rmin + b - 1,
                   Cardinality({k \in 1..Len(rbuf) : rbuf[k] = rmin + b - 1})>>

\* C21: getHistogram, computing the histogram of a buffer that holds
\* exactly the samples of the image, counts every sample once: the buckets
\* run over the integers from the rescaled minimum to the rescaled maximum
\* and their counts add up to the number of samples, for one- and
\* three-component images.
C21_HistogramCountsEverySample ==
  [][(/\ call'.op = "getHistogram"
      /\ images[1].histogram = NULL
      /\ Len(images[1].buffer) =
           images[1].numberOfComponents * getTotalSize(Geometry1.size, 0))
     => CountsEverySample(call'.result[1])]_vars


(***************************************************************************)
(* Properties of convolute2D, checked under SpecConvolute.                 *)
(***************************************************************************)

\* C22: convolute2D with the identity kernel returns an image whose buffer
\* equals the source buffer sample for sample, for every image size from
\* one column, one row, one slice on, and for one- and three-component
\* images, interleaved or planar; the source buffer is unchanged.
C22_IdentityKernelCopies ==
  (call.op = "convolute2D" /\ ~call.threw /\ call.args[1] = IdentityKernel) =>
    /\ images[2].buffer = images[1].buffer
    /\ images[1].buffer = FillBuffer(1, Len(images[1].buffer))

\* the offset of component c of the pixel at column i, row j of slice k of
\* image 1
SampleOffset(k, c, i, j) ==
  LET ncols == SizeGet(Geometry1.size, 0)
      nrows == SizeGet(Geometry1.size, 1)
      ncomp == images[1].numberOfComponents
      inSlice == IF ncomp = 3 /\ images[1].planarConfiguration = 0
                 THEN (j * ncols + i) * 3 + c
                 ELSE c * ncols * nrows + j * ncols + i
  IN k * ncols * nrows * ncomp + inSlice

\* the weighted sum over the 3x3 neighbourhood of that sample in its slice
\* and component, a neighbour outside the slice being the nearest pixel of
\* the edge
EdgeReplicatedSum(weights, k, c, i, j) ==
  LET ncols == SizeGet(Geometry1.size, 0)
      nrows == SizeGet(Geometry1.size, 1)
      RECURSIVE sum(_)
      sum(wi) ==
        IF wi > 8 THEN 0
        ELSE LET ni == Max(0, Min(ncols - 1, i + (wi % 3) - 1))
                 nj == Max(0, Min(nrows - 1, j + (wi \div 3) - 1))
             IN weights[wi + 1] *
                  images[1].buffer[SampleOffset(k, c, ni, nj) + 1] +
                sum(wi + 1)
  IN sum(0)

\* C27: every sample of every component of the image convolute2D returns
\* is the 3x3 weighted sum over the neighbourhood of the source sample in
\* its own slice and component, neighbours outside the slice replaced by
\* the nearest edge pixel; for every size from one column and one row on,
\* interleaved and planar.
C27_ConvolutionStaysInSlice ==
  (call.op = "convolute2D" /\ ~call.threw) =>
    \A k \in 0..(SizeGet(Geometry1.size, 2) - 1),
       c \in 0..(images[1].numberOfComponents - 1),
       i \in 0..(SizeGet(Geometry1.size, 0) - 1),
       j \in 0..(SizeGet(Geometry1.size, 1) - 1) :
      images[2].buffer[SampleOffset(k, c, i, j) + 1] =
        EdgeReplicatedSum(call.args[1], k, c, i, j)


(***************************************************************************)
(* Property of appendFrameBuffer, checked under SpecFrames.                *)
(***************************************************************************)

\* the samples image 1 stored before the step are stored after it, apart
\* from those at the offsets from `from` up to `to`, and what the buffer
\* has grown by is zero there
KeepsSamplesOutside(from, to) ==
  /\ Len(images'[1].buffer) >= Len(images[1].buffer)
  /\ \A k \in 1..Len(images'[1].buffer) :
       (k - 1 < from \/ k - 1 > to) =>
         images'[1].buffer[k] =
           IF k <= Len(images[1].buffer) THEN images[1].buffer[k] ELSE 0

\* C23: appendFrameBuffer(frameBuffer, frameIndex) with frameIndex below
\* the declared meta.numberOfFiles returns, stores the samples of the
\* frame from frameSize * frameIndex on, adds one frame to the geometry and
\* fires 'appendframe' once; with frameIndex not below it, or with no
\* numberOfFiles, it throws, stores no sample of the frame, adds no frame
\* and fires nothing.
C23_FrameAppendedOnceOrRefused ==
  [][call'.op = "appendFrameBuffer" =>
       LET frameBuffer == call'.args[1]
           frameIndex == call'.args[2]
           declared == MetaOf(TheWorld, 1).numberOfFiles
           at == SliceSize1 * frameIndex
       IN IF declared # NULL /\ frameIndex < declared[1]
          THEN /\ ~call'.threw
               /\ SubSeq(images'[1].buffer, at + 1, at + Len(frameBuffer)) =
                    frameBuffer
               /\ KeepsSamplesOutside(at, at + Len(frameBuffer) - 1)
               /\ FrameCount(Geometry1'.size) = FrameCount(Geometry1.size) + 1
               /\ images'[1].appendframeEvents =
                    images[1].appendframeEvents + 1
          ELSE /\ call'.threw
               /\ KeepsSamplesOutside(0, -1)
               /\ Geometry1'.size = Geometry1.size
               /\ images'[1].appendframeEvents = images[1].appendframeEvents
  ]_vars


(***************************************************************************)
(* Property of the slice iterator of three-component images, checked under *)
(* SpecIter.                                                               *)
(***************************************************************************)

\* the planar configuration of the image the iterator was made for: only
\* the interleaved range3d steps by 3
PlannedPlanarConfiguration == IF it.increment = 3 THEN 0 ELSE 1

\* C24: for a three-component image getSliceIterator ignores the view
\* orientation: at every position the offsets read with an orientation are
\* those read with no orientation, the walk of the slice at the slice index
\* of the position.
C24_Orientation3dIgnored ==
  (plan.via = "getSliceIterator" /\ plan.numberOfComponents = 3) =>
    EmitsExactly(getIteratorValues3d(
      getSliceIterator(plan.size, 3, PlannedPlanarConfiguration,
                       plan.position, NoOrientation)))

\* the offsets of the rows y0 .. y1-1 of the planned slice, each from
\* column x0 over max(1, x1 - x0) columns, in row-major order
CornerOffsets(min, max) ==
  LET ncols == plan.size[1]
      base == plan.position[3] * ncols * plan.size[2]
      width == IF max[1] - min[1] > 1 THEN max[1] - min[1] ELSE 1
      height == max[2] - min[2]
  IN [j \in 1..(height * width) |->
        base + (min[2] + ((j - 1) \div width)) * ncols
             + min[1] + ((j - 1) % width)]

\* C25: with corners min = (x0, y0) and max = (x1, y1), x0 <= x1 < ncols
\* and y0 <= y1 <= nrows, the iterator of getRegionSliceIterator emits in
\* row-major order exactly the samples of the slice at rows y0 .. y1-1 and
\* columns x0 .. x0 + max(1, x1 - x0) - 1: every row starts at column x0,
\* is at least one column wide, and nothing is emitted when y1 = y0.
C25_CornersBoundTheRegion ==
  (/\ plan.via = "getRegionSliceIterator"
   /\ plan.numberOfComponents = 1
   /\ plan.params[1] # <<>>)
  => EmitsExactly(CornerOffsets(plan.params[1][1], plan.params[2][1]))

\* a region of two rows or more that starts after column 0, in a slice
\* other than the first, was drained
C25_DrainedInnerRegion ==
  /\ plan.via = "getRegionSliceIterator"
  /\ plan.numberOfComponents = 1
  /\ plan.params[1] # <<>>
  /\ plan.params[1][1][1] >= 1
  /\ plan.params[2][1][2] - plan.params[1][1][2] >= 2
  /\ plan.position[3] >= 1
  /\ lastResult.done
  /\ Len(accessLog) >= 2


(***************************************************************************)
(* The data range of an image as constructed, checked under SpecCache.     *)
(***************************************************************************)

\* image 1 holds the buffer and the geometry it was constructed with
AsConstructed ==
  /\ Cardinality(DOMAIN supplied[1]) = 1
  /\ \A o \in DOMAIN supplied[1] :
       images[1].buffer = supplied[1][o].buffer
  /\ Len(images[1].buffer) =
       images[1].numberOfComponents * getTotalSize(Geometry1.size, 0)

\* the least and the greatest sample of the first time frame, every
\* component included
FirstFrameRange ==
  LET n == images[1].numberOfComponents * getDimSize(Geometry1.size, 3, 0)
      values == {images[1].buffer[k] : k \in 1..n}
  IN [min |-> CHOOSE v \in values : \A u \in values : v <= u,
      max |-> CHOOSE v \in values : \A u \in values : v >= u]

\* C26: on an image whose buffer is the one it was constructed with,
\* getDataRange returns the minimum and the maximum over exactly the
\* samples of the first time frame, all components included, for one- and
\* three-component images, whatever getter was called before.
C26_DataRangeOfFirstFrame ==
  [][(call'.op = "getDataRange" /\ AsConstructed)
     => call'.result[1] = FirstFrameRange]_vars

====
